---- MODULE Spec2Model ----
(***************************************************************************)
(* Order execution engine: the order pipeline (OrderQueueService), the     *)
(* venue router (MockDexRouter), the notification hub (WebSocketManager)   *)
(* and the submission surface (routes/orders), as a state machine.         *)
(*                                                                         *)
(* An action is one segment of the event loop: the completion of the       *)
(* pending await of a handler followed by the synchronous code that runs   *)
(* up to the next await.                                                   *)
(***************************************************************************)
EXTENDS Integers, Sequences, FiniteSets, TLC

(* ---------------------------- bounds ---------------------------------- *)
NumOrders == 2
NumSockets == 2
NumClients == 1
MaxFaults == 4
MaxThrows == 1
MaxSends == 2
MaxCloses == 1
MaxAdds == 2         \* calls of queue.add per order id
MaxRejects == 1      \* rejected calls while orders come in over WebSockets

(* ------------------------ program constants ---------------------------- *)
Attempts == 3
Concurrency == 10
BackoffDelay == 2000
RaydiumFeeMilli == 3
MeteoraFeeMilli == 2

Orders == 1..NumOrders
Sockets == 1..NumSockets
Clients == 1..NumClients
NoSocket == 0

(* OrderStatus *)
PENDING == "pending"
ROUTING == "routing"
BUILDING == "building"
SUBMITTED == "submitted"
CONFIRMED == "confirmed"
FAILED == "failed"

(* DEX *)
RAYDIUM == "raydium"
METEORA == "meteora"

(* readyState of a socket; FRESH is a socket that has not connected yet *)
FRESH == "fresh"
OPEN == "open"
CLOSED == "closed"

(* optional values: a column that is NULL, a field that is undefined *)
Null == <<>>
Some(v) == <<v>>

(* value domains of the environment *)
Amounts == {100}
Tokens == {"SOL", "USDC"}
OrderTypes == {"market"}
PriceLevels == {1, 2}
Slippages == {5}
TxHashes == {"tx1", "tx2"}

(* prices the venues answer with when the router is called on its own, in
   units of 0.0001: both venues draw from overlapping ranges, and 998 at
   0.3% fee gives the same output as 997 at 0.2% fee *)
QuotePrices == {997, 998, 1000}

(* amounts the router is called with on its own *)
QuoteAmounts == {1, 2}

QuoteError == "quote failed"
SwapError == "swap failed"
DbError == "db error"
SendError == "send failed"

VARIABLES
    rows,         \* the orders table: order id -> row (status "none": no row)
    jobs,         \* the queue: order id (= job id) -> [state, attemptsMade]
    pc,           \* per job: the await processOrder is suspended at
    bestQuote,    \* per job: the local bestQuote of processOrder
    result,       \* per job: the local result of processOrder
    caught,       \* per job: the error caught by processOrder's catch
    connections,  \* WebSocketManager.connections: order id -> socket
    readyState,   \* per socket: readyState
    sockOrder,    \* per socket: the orderId its route handler closed over
    inbox,        \* per socket: the messages sent to it
    closeCalls,   \* per socket: the calls of its close()
    lastSocket,   \* per order: the socket of the latest call of register
    replies,      \* the replies sent by POST /api/orders/execute
    swaps,        \* per order: the calls of executeSwap that resolved
    adds,         \* per order: the calls of queue.add with its id as jobId
    backoffs,     \* per order: the backoff delays that have elapsed, in ms
    fetches,      \* per order: the venue fetches of a getBestQuote under way
    wsPc,         \* per order: where its WebSocket submission stands
    pushed,       \* per order: statuses sent by sendUpdate in this attempt
    writes,       \* per order: store writes completed in this attempt
    runs,         \* per order: attempts started
    fails,        \* per order: attempts that ended by throwing
    faults        \* failures injected so far

vars == <<rows, jobs, pc, bestQuote, result, caught, connections, readyState,
          sockOrder, inbox, closeCalls, lastSocket, replies, swaps, adds, backoffs,
          fetches, wsPc, pushed,
          writes,
          runs, fails, faults>>

hubVars ==
    <<connections, readyState, sockOrder, inbox, closeCalls, lastSocket>>
localVars == <<bestQuote, result, caught>>

NoRow ==
    [status |-> "none", tokenIn |-> Null, tokenOut |-> Null, amountIn |-> 0,
     dex |-> Null, executedPrice |-> Null, txHash |-> Null, error |-> Null,
     attempts |-> 0]

(* no getBestQuote is under way *)
NoCall ==
    [amount |-> 0, started |-> {}, raydium |-> Null, meteora |-> Null,
     first |-> "none", joined |-> FALSE]

(* the order was not submitted over a WebSocket *)
NoSubmission == [at |-> "none", socket |-> NoSocket, message |-> Null]

Idle == <<"idle">>
AtStatus(st) == <<"updateOrderStatus", st>>
AtGetBestQuote == <<"getBestQuote">>
AtExecuteSwap == <<"executeSwap">>
AtSaveOrderResult == <<"saveOrderResult">>
AtSaveOrderError == <<"saveOrderError">>

Init ==
    /\ rows = [o \in Orders |-> NoRow]
    /\ jobs = [o \in Orders |->
                [state |-> "none", attemptsMade |-> 0, failedReason |-> Null]]
    /\ pc = [o \in Orders |-> Idle]
    /\ bestQuote = [o \in Orders |-> Null]
    /\ result = [o \in Orders |-> Null]
    /\ caught = [o \in Orders |-> Null]
    /\ connections = [o \in Orders |-> NoSocket]
    /\ readyState = [s \in Sockets |-> FRESH]
    /\ sockOrder = [s \in Sockets |-> 0]
    /\ inbox = [s \in Sockets |-> <<>>]
    /\ closeCalls = [s \in Sockets |-> 0]
    /\ lastSocket = [o \in Orders |-> NoSocket]
    /\ replies = {}
    /\ swaps = [o \in Orders |-> 0]
    /\ adds = [o \in Orders |-> 0]
    /\ backoffs = [o \in Orders |-> <<>>]
    /\ fetches = [o \in Orders |-> NoCall]
    /\ wsPc = [o \in Orders |-> NoSubmission]
    /\ pushed = [o \in Orders |-> <<>>]
    /\ writes = [o \in Orders |-> <<>>]
    /\ runs = [o \in Orders |-> 0]
    /\ fails = [o \in Orders |-> 0]
    /\ faults = 0

(* ======================= WebSocketManager ============================== *)

(* JSON.stringify(message): a key whose value is undefined is left out *)
JSONstringify(m) ==
    IF m.data = Null
    THEN [orderId |-> m.orderId, status |-> m.status]
    ELSE [orderId |-> m.orderId, status |-> m.status, data |-> m.data[1]]

(* mutant: register keeps a socket that is already registered *)
register_KeepsFirst(conns, o, s) ==
    IF conns[o] # NoSocket THEN conns ELSE [conns EXCEPT ![o] = s]

(* register(orderId, socket): the new map *)
register(conns, o, s) == [conns EXCEPT ![o] = s]

(* mutant: unregister leaves the map as it is *)
unregister_KeepsMapping(conns, o) == conns

(* unregister(orderId): the new map *)
unregister(conns, o) == [conns EXCEPT ![o] = NoSocket]

(* mutant: sendUpdate does not look at readyState *)
sendUpdate_IgnoresReadyState(o, m) ==
    LET socket == connections[o] IN
    IF socket # NoSocket
    THEN [inbox EXCEPT ![socket] = Append(@, JSONstringify(m))]
    ELSE inbox

(* mutant: sendUpdate sends to every registered open socket *)
sendUpdate_Broadcast(o, m) ==
    [s \in Sockets |->
        IF readyState[s] = OPEN /\ \E p \in Orders : connections[p] = s
        THEN Append(inbox[s], JSONstringify(m))
        ELSE inbox[s]]

(* sendUpdate(orderId, message): the inboxes after the call *)
sendUpdate(o, m) ==
    LET socket == connections[o] IN
    IF socket # NoSocket /\ readyState[socket] = OPEN
    THEN [inbox EXCEPT ![socket] = Append(@, JSONstringify(m))]
    ELSE inbox

(* mutant: closeConnection closes the socket and keeps it registered *)
closeConnection_KeepsMapping(o) ==
    LET socket == connections[o] IN
    IF socket # NoSocket
    THEN /\ closeCalls' = [closeCalls EXCEPT ![socket] = @ + 1]
         /\ readyState' = [readyState EXCEPT ![socket] = CLOSED]
         /\ UNCHANGED connections
    ELSE UNCHANGED <<closeCalls, readyState, connections>>

(* closeConnection(orderId): socket.close() makes the socket not open and
   is counted; then unregister *)
closeConnection(o) ==
    LET socket == connections[o] IN
    IF socket # NoSocket
    THEN /\ closeCalls' = [closeCalls EXCEPT ![socket] = @ + 1]
         /\ readyState' = [readyState EXCEPT ![socket] = CLOSED]
         /\ connections' = unregister(connections, o)
    ELSE UNCHANGED <<closeCalls, readyState, connections>>

(* ========================= MockDexRouter =============================== *)

(* estimatedOutput = amount * price * (1 - fee), in thousandths *)
Quote(dex, price, feeMilli, amount) ==
    [dex |-> dex, price |-> price, fee |-> feeMilli,
     estimatedOutput |-> amount * price * (1000 - feeMilli)]

getRaydiumQuote(amount, price) == Quote(RAYDIUM, price, RaydiumFeeMilli, amount)

getMeteorQuote(amount, price) == Quote(METEORA, price, MeteoraFeeMilli, amount)

(* mutant: the first venue is returned whatever the outputs are *)
getBestQuote_PrefersRaydium(amount, pr, pm) ==
    getRaydiumQuote(amount, pr)

(* mutant: the comparison is >=, so that the first venue wins a tie *)
getBestQuote_FirstWinsTies(amount, pr, pm) ==
    LET raydiumQuote == getRaydiumQuote(amount, pr)
        meteoraQuote == getMeteorQuote(amount, pm)
    IN  IF raydiumQuote.estimatedOutput >= meteoraQuote.estimatedOutput
        THEN raydiumQuote
        ELSE meteoraQuote

getBestQuote(amount, pr, pm) ==
    LET raydiumQuote == getRaydiumQuote(amount, pr)
        meteoraQuote == getMeteorQuote(amount, pm)
    IN  IF raydiumQuote.estimatedOutput > meteoraQuote.estimatedOutput
        THEN raydiumQuote
        ELSE meteoraQuote

(* executedPrice = quote.price * (1 - slippage), in thousandths *)
executeSwap(amountIn, quote, slip, hash) ==
    LET executedPrice == quote.price * (1000 - slip) IN
    [txHash |-> hash,
     executedPrice |-> executedPrice,
     amountOut |-> amountIn * executedPrice * (1000 - quote.fee),
     dex |-> quote.dex]

(* ======================== OrderQueueService ============================ *)

ActiveJobs == {o \in Orders : jobs[o].state = "active"}

(* a store write of the attempt and whether the store accepted it *)
Write(kind, ok) == <<kind, ok>>

Logged(o, kind, ok) == Append(writes[o], Write(kind, ok))

(* mutant: the UPDATE is issued without the update having been sent *)
updateOrderStatus_NoSend(o, st, data) ==
    /\ UNCHANGED <<inbox, pushed>>
    /\ pc' = [pc EXCEPT ![o] = AtStatus(st)]

(* mutant: the update is sent once before and once more with the UPDATE *)
updateOrderStatus_SendsTwice(o, st, data) ==
    /\ inbox' = sendUpdate(o, [orderId |-> o, status |-> st, data |-> data])
    /\ pushed' = [pushed EXCEPT ![o] = Append(Append(@, st), st)]
    /\ pc' = [pc EXCEPT ![o] = AtStatus(st)]

(* updateOrderStatus up to its await: sendUpdate, then the UPDATE is issued *)
updateOrderStatus(o, st, data) ==
    /\ inbox' = sendUpdate(o, [orderId |-> o, status |-> st, data |-> data])
    /\ pushed' = [pushed EXCEPT ![o] = Append(@, st)]
    /\ pc' = [pc EXCEPT ![o] = AtStatus(st)]

(* mutant: the catch block sends failed without the error *)
Catch_NoError(o, msg) ==
    /\ caught' = [caught EXCEPT ![o] = Some(msg)]
    /\ updateOrderStatus(o, FAILED, Null)

(* the catch block of processOrder up to its first await *)
Catch(o, msg) ==
    /\ caught' = [caught EXCEPT ![o] = Some(msg)]
    /\ updateOrderStatus(o, FAILED, Some([error |-> msg]))

(* mutant: a failed job is retried however often it has failed *)
JobAfterFailure_AlwaysRetries(j, msg) ==
    [state |-> "delayed",
     attemptsMade |-> j.attemptsMade + 1,
     failedReason |-> Some(msg)]

(* mutant: a failed job is never retried *)
JobAfterFailure_NeverRetries(j, msg) ==
    [state |-> "failed",
     attemptsMade |-> j.attemptsMade + 1,
     failedReason |-> Some(msg)]

(* the queue's retry policy: attempts: 3, then the job is failed *)
JobAfterFailure(j, msg) ==
    [state |-> IF j.attemptsMade + 1 < Attempts THEN "delayed" ELSE "failed",
     attemptsMade |-> j.attemptsMade + 1,
     failedReason |-> Some(msg)]

(* mutant: the quote of a failed attempt is kept for the next attempt *)
Thrown_KeepsQuote(o, msg, w) ==
    LET j == JobAfterFailure(jobs[o], msg) IN
    /\ jobs' = [jobs EXCEPT ![o] = j]
    /\ fails' = [fails EXCEPT ![o] = @ + 1]
    /\ pc' = [pc EXCEPT ![o] = Idle]
    /\ UNCHANGED bestQuote
    /\ result' = [result EXCEPT ![o] = Null]
    /\ caught' = [caught EXCEPT ![o] = Null]
    /\ pushed' = [pushed EXCEPT ![o] = IF j.state = "delayed" THEN <<>> ELSE @]
    /\ writes' = [writes EXCEPT ![o] = IF j.state = "delayed" THEN <<>> ELSE w]

(* processOrder throws msg: the worker hands the job back to the queue;
   w is the attempt's log of store writes *)
Thrown(o, msg, w) ==
    LET j == JobAfterFailure(jobs[o], msg) IN
    /\ jobs' = [jobs EXCEPT ![o] = j]
    /\ fails' = [fails EXCEPT ![o] = @ + 1]
    /\ pc' = [pc EXCEPT ![o] = Idle]
    /\ bestQuote' = [bestQuote EXCEPT ![o] = Null]
    /\ result' = [result EXCEPT ![o] = Null]
    /\ caught' = [caught EXCEPT ![o] = Null]
    /\ pushed' = [pushed EXCEPT ![o] = IF j.state = "delayed" THEN <<>> ELSE @]
    /\ writes' = [writes EXCEPT ![o] = IF j.state = "delayed" THEN <<>> ELSE w]

(* an injected failure of an external call, within the budget *)
Fault ==
    /\ faults < MaxFaults
    /\ faults' = faults + 1

(* the reply 201 of POST /api/orders/execute *)
Created(o) == [code |-> 201, error |-> Null, orderId |-> Some(o)]

(* the reply 400 of POST /api/orders/execute *)
Rejected == [code |-> 400, error |-> Some("Invalid order parameters"),
             orderId |-> Null]

(* a send that throws, within the budget *)
Throw ==
    /\ faults < MaxThrows
    /\ faults' = faults + 1

(* mutant: queue.add puts a new waiting job under the id whatever is there *)
queueAdd_NoDedup(j) ==
    [state |-> "waiting", attemptsMade |-> 0, failedReason |-> Null]

(* queue.add with a jobId: a job is created unless the queue holds a job
   with that id, in which case the call changes nothing *)
queueAdd(j) ==
    IF j.state \in {"none", "removed"}
    THEN [state |-> "waiting", attemptsMade |-> 0, failedReason |-> Null]
    ELSE j

(* mutant: the job is enqueued without waiting for the INSERT *)
addOrder_BeforeInsert(o) ==
    /\ jobs[o].state = "none"
    /\ \A p \in Orders : p < o => jobs[p].state # "none"
    /\ jobs' = [jobs EXCEPT ![o].state = "waiting"]
    /\ replies' = replies \cup {Created(o)}
    /\ adds' = [adds EXCEPT ![o] = @ + 1]
    /\ UNCHANGED <<rows, pc, localVars, hubVars, swaps, backoffs, fetches,
                   wsPc, pushed, writes, runs, fails, faults>>

(* addOrder: queue.add with jobId = orderId, awaited by the POST handler
   after its INSERT; the handler then replies 201 with the order id *)
addOrder(o) ==
    /\ rows[o].status # "none"
    /\ wsPc[o] = NoSubmission
    /\ jobs[o].state = "none"
    /\ jobs' = [jobs EXCEPT ![o].state = "waiting"]
    /\ replies' = replies \cup {Created(o)}
    /\ adds' = [adds EXCEPT ![o] = @ + 1]
    /\ UNCHANGED <<rows, pc, localVars, hubVars, swaps, backoffs, fetches,
                   wsPc, pushed, writes, runs, fails, faults>>

(* addOrder called once more for an order that was enqueued before *)
AddOrderAgain(o) ==
    /\ adds[o] >= 1
    /\ adds[o] < MaxAdds
    /\ jobs' = [jobs EXCEPT ![o] = queueAdd(@)]
    /\ adds' = [adds EXCEPT ![o] = @ + 1]
    /\ UNCHANGED <<rows, pc, localVars, hubVars, replies, swaps, backoffs,
                   fetches, wsPc, pushed, writes, runs, fails, faults>>

(* a worker slot takes the job and runs processOrder up to its first await *)
StartJob(o) ==
    /\ jobs[o].state = "waiting"
    /\ Cardinality(ActiveJobs) < Concurrency
    /\ jobs' = [jobs EXCEPT ![o].state = "active"]
    /\ runs' = [runs EXCEPT ![o] = @ + 1]
    /\ updateOrderStatus(o, PENDING, Null)
    /\ UNCHANGED <<rows, localVars, connections, readyState, sockOrder,
                   lastSocket, closeCalls, replies, swaps, adds, backoffs,
                   fetches, wsPc, writes, fails, faults>>

(* mutant: the backoff delay is the same after every failure *)
Backoff_Fixed(attemptsMade) == BackoffDelay

(* backoff type exponential: the delay before the retry of a job that has
   failed attemptsMade times, in ms *)
Backoff(attemptsMade) == BackoffDelay * 2 ^ (attemptsMade - 1)

(* the backoff delay of a failed job has elapsed *)
BackoffElapsed(o) ==
    /\ jobs[o].state = "delayed"
    /\ jobs' = [jobs EXCEPT ![o].state = "waiting"]
    /\ backoffs' = [backoffs EXCEPT ![o] = Append(@, Backoff(jobs[o].attemptsMade))]
    /\ UNCHANGED <<rows, pc, localVars, hubVars, replies, swaps, adds, fetches,
                   wsPc, pushed, writes, runs, fails, faults>>

(* processOrder after the UPDATE of updateOrderStatus(st) has succeeded, up
   to the next await *)
Continue(o, st) ==
    CASE st = PENDING -> updateOrderStatus(o, ROUTING, Null)
      [] st = ROUTING ->
           /\ pc' = [pc EXCEPT ![o] = AtGetBestQuote]
           /\ UNCHANGED <<inbox, pushed>>
      [] st = BUILDING -> updateOrderStatus(o, SUBMITTED, Null)
      [] st = SUBMITTED ->
           /\ pc' = [pc EXCEPT ![o] = AtExecuteSwap]
           /\ UNCHANGED <<inbox, pushed>>
      [] st = CONFIRMED ->
           /\ pc' = [pc EXCEPT ![o] = AtSaveOrderResult]
           /\ UNCHANGED <<inbox, pushed>>
      [] st = FAILED ->
           /\ pc' = [pc EXCEPT ![o] = AtSaveOrderError]
           /\ UNCHANGED <<inbox, pushed>>

(* mutant: the UPDATE of updateOrderStatus has no WHERE clause *)
StatusQueryOk_EveryRow(o) ==
    /\ pc[o][1] = "updateOrderStatus"
    /\ rows' = [p \in Orders |->
                  IF rows[p].status = "none" THEN rows[p]
                  ELSE [rows[p] EXCEPT !.status = pc[o][2]]]
    /\ writes' = [writes EXCEPT ![o] = Logged(o, pc[o][2], TRUE)]
    /\ Continue(o, pc[o][2])
    /\ UNCHANGED <<jobs, localVars, connections, readyState, sockOrder,
                   lastSocket, closeCalls, replies, swaps, adds, backoffs,
                   fetches, wsPc, runs, fails, faults>>

(* mutant: the UPDATE of updateOrderStatus is reported as done and leaves
   the row as it was *)
StatusQueryOk_LeavesRow(o) ==
    /\ pc[o][1] = "updateOrderStatus"
    /\ writes' = [writes EXCEPT ![o] = Logged(o, pc[o][2], TRUE)]
    /\ Continue(o, pc[o][2])
    /\ UNCHANGED <<rows, jobs, localVars, connections, readyState, sockOrder,
                   lastSocket, closeCalls, replies, swaps, adds, backoffs,
                   fetches, wsPc, runs, fails, faults>>

(* the UPDATE of updateOrderStatus succeeds; processOrder runs on *)
StatusQueryOk(o) ==
    /\ pc[o][1] = "updateOrderStatus"
    /\ rows' = [rows EXCEPT ![o].status = pc[o][2]]
    /\ writes' = [writes EXCEPT ![o] = Logged(o, pc[o][2], TRUE)]
    /\ Continue(o, pc[o][2])
    /\ UNCHANGED <<jobs, localVars, connections, readyState, sockOrder,
                   lastSocket, closeCalls, replies, swaps, adds, backoffs,
                   fetches, wsPc, runs, fails, faults>>

(* mutant: a rejected UPDATE of updateOrderStatus is swallowed and
   processOrder goes on *)
StatusQueryFail_Swallows(o) ==
    /\ pc[o][1] = "updateOrderStatus"
    /\ writes' = [writes EXCEPT ![o] = Logged(o, pc[o][2], FALSE)]
    /\ Continue(o, pc[o][2])
    /\ UNCHANGED <<rows, jobs, localVars, fails, connections, readyState,
                   sockOrder, lastSocket, closeCalls, replies, swaps, adds,
                   backoffs, fetches, wsPc, runs>>

(* the UPDATE of updateOrderStatus is rejected: the catch block runs, or,
   from inside the catch block, the rejection leaves processOrder *)
StatusQueryFail(o) ==
    /\ pc[o][1] = "updateOrderStatus"
    /\ IF pc[o][2] # FAILED
       THEN /\ Catch(o, DbError)
            /\ writes' = [writes EXCEPT ![o] = Logged(o, pc[o][2], FALSE)]
            /\ UNCHANGED <<jobs, bestQuote, result, fails>>
       ELSE /\ Thrown(o, DbError, Logged(o, FAILED, FALSE))
            /\ UNCHANGED inbox
    /\ UNCHANGED <<rows, connections, readyState, sockOrder, lastSocket,
                   closeCalls, replies, swaps, adds, backoffs, fetches, wsPc,
                   runs>>

(* getBestQuote resolves *)
GetBestQuoteOk(o, pr, pm) ==
    /\ pc[o] = AtGetBestQuote
    /\ LET q == getBestQuote(rows[o].amountIn, pr, pm) IN
       /\ bestQuote' = [bestQuote EXCEPT ![o] = Some(q)]
       /\ updateOrderStatus(o, BUILDING, Some([dex |-> q.dex, price |-> q.price]))
    /\ UNCHANGED <<rows, jobs, result, caught, connections, readyState,
                   sockOrder, lastSocket, closeCalls, replies, swaps, adds,
                   backoffs, fetches, wsPc, writes, runs, fails, faults>>

(* getBestQuote rejects *)
GetBestQuoteFail(o) ==
    /\ pc[o] = AtGetBestQuote
    /\ Catch(o, QuoteError)
    /\ UNCHANGED <<rows, jobs, bestQuote, result, connections, readyState,
                   sockOrder, lastSocket, closeCalls, replies, swaps, adds,
                   backoffs, fetches, wsPc, writes, runs, fails>>

(* executeSwap resolves *)
ExecuteSwapOk(o, slip, hash) ==
    /\ pc[o] = AtExecuteSwap
    /\ LET r == executeSwap(rows[o].amountIn, bestQuote[o][1], slip, hash) IN
       /\ result' = [result EXCEPT ![o] = Some(r)]
       /\ updateOrderStatus(o, CONFIRMED,
              Some([txHash |-> r.txHash, price |-> r.executedPrice, dex |-> r.dex]))
    /\ swaps' = [swaps EXCEPT ![o] = @ + 1]
    /\ UNCHANGED <<rows, jobs, bestQuote, caught, connections, readyState,
                   sockOrder, lastSocket, closeCalls, replies, adds, backoffs,
                   fetches, wsPc, writes, runs, fails, faults>>

(* executeSwap rejects *)
ExecuteSwapFail(o) ==
    /\ pc[o] = AtExecuteSwap
    /\ Catch(o, SwapError)
    /\ UNCHANGED <<rows, jobs, bestQuote, result, connections, readyState,
                   sockOrder, lastSocket, closeCalls, replies, swaps, adds,
                   backoffs, fetches, wsPc, writes, runs, fails>>

(* mutant: saveOrderResult leaves the tx_hash column *)
SaveOrderResultOk_NoTxHash(o) ==
    /\ pc[o] = AtSaveOrderResult
    /\ LET r == result[o][1] IN
       rows' = [rows EXCEPT ![o].dex = Some(r.dex),
                            ![o].executedPrice = Some(r.executedPrice)]
    /\ writes' = [writes EXCEPT ![o] = Logged(o, "result", TRUE)]
    /\ jobs' = [jobs EXCEPT ![o].state = "completed"]
    /\ pc' = [pc EXCEPT ![o] = Idle]
    /\ bestQuote' = [bestQuote EXCEPT ![o] = Null]
    /\ result' = [result EXCEPT ![o] = Null]
    /\ UNCHANGED <<caught, hubVars, replies, swaps, adds, backoffs, fetches,
                   wsPc, pushed, runs, fails, faults>>

(* mutant: saveOrderResult counts the attempt *)
SaveOrderResultOk_CountsAttempt(o) ==
    /\ pc[o] = AtSaveOrderResult
    /\ LET r == result[o][1] IN
       rows' = [rows EXCEPT ![o].dex = Some(r.dex),
                            ![o].executedPrice = Some(r.executedPrice),
                            ![o].txHash = Some(r.txHash),
                            ![o].attempts = @ + 1]
    /\ writes' = [writes EXCEPT ![o] = Logged(o, "result", TRUE)]
    /\ jobs' = [jobs EXCEPT ![o].state = "completed"]
    /\ pc' = [pc EXCEPT ![o] = Idle]
    /\ bestQuote' = [bestQuote EXCEPT ![o] = Null]
    /\ result' = [result EXCEPT ![o] = Null]
    /\ UNCHANGED <<caught, hubVars, replies, swaps, adds, backoffs, fetches,
                   wsPc, pushed, runs, fails, faults>>

(* the UPDATE of saveOrderResult succeeds; processOrder returns *)
SaveOrderResultOk(o) ==
    /\ pc[o] = AtSaveOrderResult
    /\ LET r == result[o][1] IN
       rows' = [rows EXCEPT ![o].dex = Some(r.dex),
                            ![o].executedPrice = Some(r.executedPrice),
                            ![o].txHash = Some(r.txHash)]
    /\ writes' = [writes EXCEPT ![o] = Logged(o, "result", TRUE)]
    /\ jobs' = [jobs EXCEPT ![o].state = "completed"]
    /\ pc' = [pc EXCEPT ![o] = Idle]
    /\ bestQuote' = [bestQuote EXCEPT ![o] = Null]
    /\ result' = [result EXCEPT ![o] = Null]
    /\ UNCHANGED <<caught, hubVars, replies, swaps, adds, backoffs, fetches,
                   wsPc, pushed, runs, fails, faults>>

(* the UPDATE of saveOrderResult is rejected *)
SaveOrderResultFail(o) ==
    /\ pc[o] = AtSaveOrderResult
    /\ Catch(o, DbError)
    /\ writes' = [writes EXCEPT ![o] = Logged(o, "result", FALSE)]
    /\ UNCHANGED <<rows, jobs, bestQuote, result, connections, readyState,
                   sockOrder, lastSocket, closeCalls, replies, swaps, adds,
                   backoffs, fetches, wsPc, runs, fails>>

(* mutant: saveOrderError also puts the order back to pending for the retry *)
SaveOrderErrorOk_ResetsStatus(o) ==
    /\ pc[o] = AtSaveOrderError
    /\ rows' = [rows EXCEPT ![o].error = caught[o],
                            ![o].attempts = @ + 1,
                            ![o].status = PENDING]
    /\ Thrown(o, caught[o][1], Logged(o, "error", TRUE))
    /\ UNCHANGED <<hubVars, replies, swaps, adds, backoffs, fetches, wsPc,
                   runs, faults>>

(* mutant: saveOrderError counts the attempt but leaves the error column *)
SaveOrderErrorOk_NoError(o) ==
    /\ pc[o] = AtSaveOrderError
    /\ rows' = [rows EXCEPT ![o].attempts = @ + 1]
    /\ Thrown(o, caught[o][1], Logged(o, "error", TRUE))
    /\ UNCHANGED <<hubVars, replies, swaps, adds, backoffs, fetches, wsPc,
                   runs, faults>>

(* the UPDATE of saveOrderError succeeds; the caught error is rethrown *)
SaveOrderErrorOk(o) ==
    /\ pc[o] = AtSaveOrderError
    /\ rows' = [rows EXCEPT ![o].error = caught[o],
                            ![o].attempts = @ + 1]
    /\ Thrown(o, caught[o][1], Logged(o, "error", TRUE))
    /\ UNCHANGED <<hubVars, replies, swaps, adds, backoffs, fetches, wsPc,
                   runs, faults>>

(* the UPDATE of saveOrderError is rejected: its rejection is thrown *)
SaveOrderErrorFail(o) ==
    /\ pc[o] = AtSaveOrderError
    /\ Thrown(o, DbError, Logged(o, "error", FALSE))
    /\ UNCHANGED <<rows, hubVars, replies, swaps, adds, backoffs, fetches,
                   wsPc, runs>>

(* sendUpdate reaches socket.send: a socket is registered and open *)
SendCalled(o) ==
    /\ connections[o] # NoSocket
    /\ readyState[connections[o]] = OPEN

(* socket.send throws inside the try block of processOrder, after the store
   writes w, with the locals bq and res: sendUpdate and updateOrderStatus let
   the exception through and the catch block runs; its own sendUpdate of
   failed throws again, which leaves processOrder, or returns *)
TrySendThrows(o, w, bq, res, again) ==
    IF again
    THEN /\ Thrown(o, SendError, w)
         /\ UNCHANGED inbox
    ELSE /\ Catch(o, SendError)
         /\ jobs' = [jobs EXCEPT ![o].state = "active"]
         /\ writes' = [writes EXCEPT ![o] = w]
         /\ bestQuote' = [bestQuote EXCEPT ![o] = bq]
         /\ result' = [result EXCEPT ![o] = res]
         /\ UNCHANGED fails

(* a worker slot takes the job; the send of pending throws *)
StartJobSendThrows(o, again) ==
    /\ jobs[o].state = "waiting"
    /\ Cardinality(ActiveJobs) < Concurrency
    /\ SendCalled(o)
    /\ runs' = [runs EXCEPT ![o] = @ + 1]
    /\ TrySendThrows(o, writes[o], Null, Null, again)
    /\ UNCHANGED <<rows, connections, readyState, sockOrder, lastSocket,
                   closeCalls, replies, swaps, adds, backoffs, fetches, wsPc>>

(* the UPDATE of pending or of building succeeds; the send of the next
   status, routing or submitted, throws *)
StatusQueryOkSendThrows(o, again) ==
    /\ pc[o] \in {AtStatus(PENDING), AtStatus(BUILDING)}
    /\ SendCalled(o)
    /\ rows' = [rows EXCEPT ![o].status = pc[o][2]]
    /\ TrySendThrows(o, Logged(o, pc[o][2], TRUE), bestQuote[o], result[o],
                     again)
    /\ UNCHANGED <<connections, readyState, sockOrder, lastSocket, closeCalls,
                   replies, swaps, adds, backoffs, fetches, wsPc, runs>>

(* getBestQuote resolves; the send of building throws *)
GetBestQuoteOkSendThrows(o, pr, pm, again) ==
    /\ pc[o] = AtGetBestQuote
    /\ SendCalled(o)
    /\ TrySendThrows(o, writes[o],
                     Some(getBestQuote(rows[o].amountIn, pr, pm)), result[o],
                     again)
    /\ UNCHANGED <<rows, connections, readyState, sockOrder, lastSocket,
                   closeCalls, replies, swaps, adds, backoffs, fetches, wsPc,
                   runs>>

(* executeSwap resolves; the send of confirmed throws *)
ExecuteSwapOkSendThrows(o, slip, hash, again) ==
    /\ pc[o] = AtExecuteSwap
    /\ SendCalled(o)
    /\ TrySendThrows(o, writes[o], bestQuote[o],
                     Some(executeSwap(rows[o].amountIn, bestQuote[o][1], slip,
                                      hash)),
                     again)
    /\ swaps' = [swaps EXCEPT ![o] = @ + 1]
    /\ UNCHANGED <<rows, connections, readyState, sockOrder, lastSocket,
                   closeCalls, replies, adds, backoffs, fetches, wsPc, runs>>

(* resetQueue: clean completed, failed, waiting, delayed (and paused) jobs *)
resetQueue ==
    /\ jobs' = [o \in Orders |->
                  IF jobs[o].state \in {"completed", "failed", "waiting", "delayed"}
                  THEN [jobs[o] EXCEPT !.state = "removed"]
                  ELSE jobs[o]]
    /\ UNCHANGED <<rows, pc, localVars, hubVars, replies, swaps, adds,
                   backoffs, fetches, wsPc, pushed, writes, runs, fails,
                   faults>>

(* ========================= routes/orders =============================== *)

(* !x of a string field and of a number field of the request body *)
FalsyString(x) == x = Null \/ x = Some("")

FalsyNumber(x) == x = Null \/ x = Some(0)

(* the number in a number field that is present *)
NumberOf(x) == IF x = Null THEN 0 ELSE x[1]

(* the validation of the POST handler: the request is refused *)
Refuses(body) ==
    \/ FalsyString(body.type)
    \/ FalsyString(body.tokenIn)
    \/ FalsyString(body.tokenOut)
    \/ FalsyNumber(body.amountIn)
    \/ NumberOf(body.amountIn) <= 0

(* a request body with every field present, for amount a of SOL *)
OrderBody(a) ==
    [type |-> Some("market"), tokenIn |-> Some("SOL"),
     tokenOut |-> Some("USDC"), amountIn |-> Some(a)]

(* the request bodies a client may send: any field may be missing *)
Bodies ==
    [type : {Null} \cup {Some(x) : x \in OrderTypes},
     tokenIn : {Null} \cup {Some(x) : x \in Tokens},
     tokenOut : {Null} \cup {Some(x) : x \in Tokens},
     amountIn : {Null} \cup {Some(x) : x \in Amounts \cup {0, -1}}]

(* POST /api/orders/execute with a body the validation refuses: 400 *)
PostExecuteRefused(body) ==
    /\ Refuses(body)
    /\ replies' = replies \cup {Rejected}
    /\ UNCHANGED <<rows, jobs, pc, localVars, hubVars, swaps, adds, backoffs,
                   fetches, wsPc, pushed, writes, runs, fails, faults>>

(* POST /api/orders/execute with a body the validation lets through, up to
   the end of its INSERT; the order id is fresh (ids are taken in increasing
   order) *)
PostExecute(o, body) ==
    /\ ~Refuses(body)
    /\ rows[o].status = "none"
    /\ \A p \in Orders : p < o => rows[p].status # "none"
    /\ rows' = [rows EXCEPT ![o] = [NoRow EXCEPT !.status = PENDING,
                                                 !.tokenIn = body.tokenIn,
                                                 !.tokenOut = body.tokenOut,
                                                 !.amountIn = NumberOf(body.amountIn)]]
    /\ UNCHANGED <<jobs, pc, localVars, hubVars, replies, swaps, adds,
                   backoffs, fetches, wsPc, pushed, writes, runs, fails,
                   faults>>

(* mutant: a socket that connects is sent the statuses pushed so far *)
WsConnect_Replays(s, o) ==
    /\ readyState[s] = FRESH
    /\ readyState' = [readyState EXCEPT ![s] = OPEN]
    /\ sockOrder' = [sockOrder EXCEPT ![s] = o]
    /\ connections' = register(connections, o, s)
    /\ lastSocket' = [lastSocket EXCEPT ![o] = s]
    /\ inbox' = [inbox EXCEPT
                    ![s] = @ \o [i \in 1..Len(pushed[o]) |->
                                   [orderId |-> o, status |-> pushed[o][i]]]]
    /\ UNCHANGED <<rows, jobs, pc, localVars, closeCalls, replies, swaps,
                   adds, backoffs, fetches, wsPc, pushed, writes, runs, fails,
                   faults>>

(* GET /api/orders/:orderId/ws: a socket connects and is registered *)
WsConnect(s, o) ==
    /\ readyState[s] = FRESH
    /\ readyState' = [readyState EXCEPT ![s] = OPEN]
    /\ sockOrder' = [sockOrder EXCEPT ![s] = o]
    /\ connections' = register(connections, o, s)
    /\ lastSocket' = [lastSocket EXCEPT ![o] = s]
    /\ UNCHANGED <<rows, jobs, pc, localVars, inbox, closeCalls, replies,
                   swaps, adds, backoffs, fetches, wsPc, pushed, writes, runs,
                   fails, faults>>

(* mutant: a client that disconnects takes its order off the queue *)
WsClose_CancelsOrder(s) ==
    /\ readyState[s] = OPEN
    /\ readyState' = [readyState EXCEPT ![s] = CLOSED]
    /\ connections' = unregister(connections, sockOrder[s])
    /\ jobs' = [jobs EXCEPT ![sockOrder[s]].state =
                    IF @ \in {"waiting", "active"} THEN "removed" ELSE @]
    /\ UNCHANGED <<rows, pc, localVars, sockOrder, lastSocket, closeCalls,
                   replies, swaps, adds, backoffs, fetches, wsPc, inbox,
                   pushed, writes, runs, fails, faults>>

(* the socket closes: its 'close' handler unregisters its order id *)
WsClose(s) ==
    /\ readyState[s] = OPEN
    /\ readyState' = [readyState EXCEPT ![s] = CLOSED]
    /\ connections' = unregister(connections, sockOrder[s])
    /\ UNCHANGED <<rows, jobs, pc, localVars, sockOrder, lastSocket,
                   closeCalls, replies, swaps, adds, backoffs, fetches, wsPc,
                   inbox, pushed, writes, runs, fails, faults>>

(* ------------- the hub, called as its unit tests call it --------------- *)

RECURSIVE SumOver(_, _)
SumOver(f, S) ==
    IF S = {} THEN 0
    ELSE LET s == CHOOSE x \in S : TRUE IN f[s] + SumOver(f, S \ {s})

SendsDelivered == SumOver([s \in Sockets |-> Len(inbox[s])], Sockets)

CloseCallsMade == SumOver(closeCalls, Sockets)

(* the WebSocketMessages of order o: with and without data *)
Messages(o) ==
    {[orderId |-> o, status |-> PENDING, data |-> Null],
     [orderId |-> o, status |-> FAILED, data |-> Some([error |-> QuoteError])]}

pipelineIdle ==
    UNCHANGED <<rows, jobs, pc, localVars, replies, swaps, adds, backoffs,
                fetches, wsPc, pushed, writes, runs, fails, faults>>

(* a socket is created open: readyState 1 *)
SocketOpens(s) ==
    /\ readyState[s] = FRESH
    /\ readyState' = [readyState EXCEPT ![s] = OPEN]
    /\ UNCHANGED <<connections, sockOrder, lastSocket, inbox, closeCalls>>
    /\ pipelineIdle

(* a socket goes to readyState 3 *)
SocketCloses(s) ==
    /\ readyState[s] = OPEN
    /\ readyState' = [readyState EXCEPT ![s] = CLOSED]
    /\ UNCHANGED <<connections, sockOrder, lastSocket, inbox, closeCalls>>
    /\ pipelineIdle

Register(o, s) ==
    /\ connections' = register(connections, o, s)
    /\ lastSocket' = [lastSocket EXCEPT ![o] = s]
    /\ UNCHANGED <<readyState, sockOrder, inbox, closeCalls>>
    /\ pipelineIdle

SendUpdate(o, m) ==
    /\ SendsDelivered < MaxSends
    /\ inbox' = sendUpdate(o, m)
    /\ UNCHANGED <<connections, readyState, sockOrder, lastSocket,
                   closeCalls>>
    /\ pipelineIdle

Unregister(o) ==
    /\ connections' = unregister(connections, o)
    /\ UNCHANGED <<readyState, sockOrder, lastSocket, inbox, closeCalls>>
    /\ pipelineIdle

CloseConnection(o) ==
    /\ CloseCallsMade < MaxCloses
    /\ closeConnection(o)
    /\ UNCHANGED <<sockOrder, lastSocket, inbox>>
    /\ pipelineIdle

NextManager ==
    \/ \E s \in Sockets : SocketOpens(s)
    \/ \E s \in Sockets : SocketCloses(s)
    \/ \E o \in Orders, s \in Sockets : Register(o, s)
    \/ \E o \in Orders : \E m \in Messages(o) : SendUpdate(o, m)
    \/ \E o \in Orders : Unregister(o)
    \/ \E o \in Orders : CloseConnection(o)

SpecManager == Init /\ [][NextManager]_vars

(* --------------------- the steps, per order --------------------------- *)

Submit(o) ==
    \/ \E a \in Amounts : PostExecute(o, OrderBody(a))
    \/ addOrder(o)

(* a step of an attempt in which every call succeeds *)
StepHappy(o) ==
    \/ StartJob(o)
    \/ StatusQueryOk(o)
    \/ \E pr \in PriceLevels, pm \in PriceLevels : GetBestQuoteOk(o, pr, pm)
    \/ \E sl \in Slippages, h \in TxHashes : ExecuteSwapOk(o, sl, h)
    \/ SaveOrderResultOk(o)

(* a step of the worker slot or of the queue in which no call fails *)
StepOk(o) ==
    \/ StepHappy(o)
    \/ SaveOrderErrorOk(o)
    \/ BackoffElapsed(o)

(* The pipeline: submissions, the queue and its workers, the store and the
   router, where any external call may fail, and the administrative reset.
   No client is connected. *)
Next ==
    \/ \E o \in Orders : Submit(o)
    \/ \E o \in Orders : StepOk(o)
    \/ \E o \in Orders : Fault /\ StatusQueryFail(o)
    \/ \E o \in Orders : Fault /\ GetBestQuoteFail(o)
    \/ \E o \in Orders : Fault /\ ExecuteSwapFail(o)
    \/ \E o \in Orders : Fault /\ SaveOrderResultFail(o)
    \/ \E o \in Orders : Fault /\ SaveOrderErrorFail(o)
    \/ resetQueue

Spec == Init /\ [][Next]_vars

(* No external call fails and the queue is not reset. *)
NextHappy ==
    \/ \E o \in Orders : Submit(o)
    \/ \E o \in Orders : StepHappy(o)

FairHappy ==
    /\ Init
    /\ [][NextHappy]_vars
    /\ \A o \in Orders : WF_vars(addOrder(o))
    /\ \A o \in Orders : WF_vars(StepHappy(o))

(* Clients connect to and disconnect from the per-order update channel
   while orders are processed without failures. *)
NextHub ==
    \/ NextHappy
    \/ \E s \in Clients, o \in Orders : WsConnect(s, o)
    \/ \E s \in Clients : WsClose(s)

SpecHub == Init /\ [][NextHub]_vars

(* the same, with the queue and its workers scheduled fairly; nothing is
   assumed of the clients *)
FairHub ==
    /\ Init
    /\ [][NextHub]_vars
    /\ \A o \in Orders : WF_vars(addOrder(o))
    /\ \A o \in Orders : WF_vars(StepHappy(o))

(* Clients post any request body, well formed or not, while orders are
   processed without failures; the queue and its workers are scheduled
   fairly. *)
NextSubmit ==
    \/ \E o \in Orders, body \in Bodies : PostExecute(o, body)
    \/ \E body \in Bodies : PostExecuteRefused(body)
    \/ \E o \in Orders : addOrder(o)
    \/ \E o \in Orders : StepHappy(o)

FairSubmit ==
    /\ Init
    /\ [][NextSubmit]_vars
    /\ \A o \in Orders : WF_vars(addOrder(o))
    /\ \A o \in Orders : WF_vars(StepHappy(o))

(* What callers can do while orders are processed without failures: submit,
   connect, disconnect and reset the queue; the queue and its workers are
   scheduled fairly. *)
NextCallers ==
    \/ NextHub
    \/ resetQueue

FairCallers ==
    /\ Init
    /\ [][NextCallers]_vars
    /\ \A o \in Orders : WF_vars(addOrder(o))
    /\ \A o \in Orders : WF_vars(StepHappy(o))

(* a step of an attempt in which socket.send throws *)
StepSendThrows(o) ==
    \E again \in BOOLEAN :
        \/ StartJobSendThrows(o, again)
        \/ StatusQueryOkSendThrows(o, again)
        \/ \E pr \in PriceLevels, pm \in PriceLevels :
               GetBestQuoteOkSendThrows(o, pr, pm, again)
        \/ \E sl \in Slippages, h \in TxHashes :
               ExecuteSwapOkSendThrows(o, sl, h, again)

(* Clients connect and disconnect while orders are processed; no call to the
   store or to the router fails, but a send to an open socket may throw. *)
NextSendThrows ==
    \/ \E o \in Orders : Submit(o)
    \/ \E o \in Orders : StepOk(o)
    \/ \E o \in Orders : Throw /\ StepSendThrows(o)
    \/ \E s \in Clients, o \in Orders : WsConnect(s, o)
    \/ \E s \in Clients : WsClose(s)

SpecSendThrows == Init /\ [][NextSendThrows]_vars

(* Routing is forced to fail on every attempt; the store works and the
   queue is not reset. *)
StepRoutingFails(o) ==
    \/ StartJob(o)
    \/ StatusQueryOk(o)
    \/ GetBestQuoteFail(o) /\ UNCHANGED faults
    \/ SaveOrderErrorOk(o)
    \/ BackoffElapsed(o)

NextRoutingFails ==
    \/ \E o \in Orders : Submit(o)
    \/ \E o \in Orders : StepRoutingFails(o)

FairRoutingFails ==
    /\ Init
    /\ [][NextRoutingFails]_vars
    /\ \A o \in Orders : WF_vars(addOrder(o))
    /\ \A o \in Orders : WF_vars(StepRoutingFails(o))

(* ============================= properties ============================== *)

Chain == <<PENDING, ROUTING, BUILDING, SUBMITTED, CONFIRMED>>

IsPrefix(s, t) == Len(s) <= Len(t) /\ \A i \in 1..Len(s) : s[i] = t[i]

Contains(s, x) == \E i \in 1..Len(s) : s[i] = x

Front(s) == SubSeq(s, 1, Len(s) - 1)

Submitted(o) == rows[o].status # "none"

(* C1: within one attempt the statuses sent by processOrder are a prefix of
   pending, routing, building, submitted, confirmed, in that order, then at
   most one failed; whatever the other orders are doing. *)
AttemptShape(s) ==
    \/ IsPrefix(s, Chain)
    \/ /\ s # <<>>
       /\ s[Len(s)] = FAILED
       /\ IsPrefix(Front(s), Chain)

C1_AttemptOrder == \A o \in Orders : AttemptShape(pushed[o])

(* an attempt that failed at routing, while another order is in its swap *)
C1_Witness ==
    \E o, p \in Orders :
        /\ o # p
        /\ pushed[o] = <<PENDING, ROUTING, FAILED>>
        /\ pc[p] = AtExecuteSwap

Rank(st) ==
    CASE st = PENDING -> 1
      [] st = ROUTING -> 2
      [] st = BUILDING -> 3
      [] st = SUBMITTED -> 4
      [] st = CONFIRMED -> 5
      [] st = FAILED -> 6

(* a move along the chain, or a move into failed *)
Forward(a, b) == Rank(a) < Rank(b)

StatusChanges(o) == Submitted(o) /\ rows'[o].status # rows[o].status

(* C2, as claimed: over the whole life of an order, retries included, the
   persisted status only moves forward along the chain or into failed, and
   never leaves failed. *)
C2_ForwardOnly ==
    [][\A o \in Orders :
          StatusChanges(o) => Forward(rows[o].status, rows'[o].status)]_vars

(* C2, amended: the persisted status moves forward along the chain or into
   failed, except that the first write of a retry attempt sets it back to
   pending. *)
C2_ForwardWithinAttempt ==
    [][\A o \in Orders :
          StatusChanges(o) =>
              \/ Forward(rows[o].status, rows'[o].status)
              \/ /\ rows'[o].status = PENDING
                 /\ pc[o] = AtStatus(PENDING)
                 /\ jobs[o].attemptsMade >= 1]_vars

(* a retry attempt that has been set back and has moved forward again *)
C2_Witness ==
    \E o \in Orders :
        /\ jobs[o].attemptsMade = 1
        /\ rows[o].attempts = 1
        /\ rows[o].status = BUILDING

(* C3, as claimed: once confirmed has been sent or persisted for an order,
   no later status is sent for it and its persisted status never changes
   again, even if a later store write of the attempt fails. *)
C3_ConfirmedIsTerminal ==
    [][\A o \in Orders :
          (Contains(pushed[o], CONFIRMED) \/ rows[o].status = CONFIRMED) =>
              /\ Len(pushed'[o]) <= Len(pushed[o])
              /\ rows'[o].status \in {rows[o].status, CONFIRMED}]_vars

HasResult(r) == r.dex # Null /\ r.executedPrice # Null /\ r.txHash # Null

(* C4, as claimed: in every state of the store a confirmed order has dex,
   executedPrice and txHash present, and they never change afterwards. *)
C4_ConfirmedHasResult ==
    [][\A o \in Orders :
          /\ rows'[o].status = CONFIRMED => HasResult(rows'[o])
          /\ rows[o].status = CONFIRMED /\ HasResult(rows[o]) =>
                 /\ rows'[o].dex = rows[o].dex
                 /\ rows'[o].executedPrice = rows[o].executedPrice
                 /\ rows'[o].txHash = rows[o].txHash]_vars

(* C5, as claimed: in every state of the store a failed order has an error
   message present. *)
C5_FailedHasError ==
    \A o \in Orders : rows[o].status = FAILED => rows[o].error # Null

(* C5, amended: a failed order has an error present once a failed attempt
   has been counted; a failed order has no error only while the
   saveOrderError write of its attempt is pending, or after a failed attempt
   whose write of the failure was rejected. *)
C5_FailedHasErrorOnceSaved ==
    \A o \in Orders :
        /\ rows[o].status = FAILED /\ rows[o].attempts >= 1 =>
               rows[o].error # Null
        /\ rows[o].status = FAILED /\ rows[o].error = Null =>
               \/ pc[o] = AtSaveOrderError
               \/ fails[o] > rows[o].attempts

(* a failed order at rest, with its error *)
C5_Witness ==
    \E o \in Orders :
        /\ jobs[o].state = "delayed"
        /\ rows[o].status = FAILED
        /\ rows[o].error = Some(QuoteError)

(* the failure of the attempt was written: the failed status, then the
   error and the attempt count *)
LastWritesOk(w) ==
    /\ Len(w) >= 2
    /\ w[Len(w) - 1] = Write(FAILED, TRUE)
    /\ w[Len(w)] = Write("error", TRUE)

AtMostThreeRuns(o) ==
    /\ runs'[o] <= Attempts
    /\ jobs[o].state \in {"completed", "failed"} =>
           /\ jobs'[o].state \in {jobs[o].state, "removed"}
           /\ runs'[o] = runs[o]
    /\ fails'[o] = Attempts => jobs'[o].state \in {"failed", "removed"}

(* C6, as claimed: a job is processed at most 3 times; a job whose attempt
   succeeded is never run again; after the third failed attempt the job is
   failed, no attempt is started again, and the persisted status stays
   failed with the error of the last attempt. *)
C6_ThreeAttemptsThenFailed ==
    [][\A o \in Orders :
          /\ AtMostThreeRuns(o)
          /\ fails'[o] = Attempts =>
                 /\ rows'[o].status = FAILED
                 /\ rows'[o].error = jobs'[o].failedReason]_vars

(* C6, amended: as claimed, but the persisted status is failed with the
   error of the last attempt only if the store accepted the failed status
   write and the saveOrderError write of that attempt. *)
C6_ThreeAttemptsThenFailedIfWritten ==
    [][\A o \in Orders :
          /\ AtMostThreeRuns(o)
          /\ fails'[o] = Attempts /\ LastWritesOk(writes'[o]) =>
                 /\ rows'[o].status = FAILED
                 /\ rows'[o].error = jobs'[o].failedReason]_vars

(* a job that failed for the third time, with the failure written *)
C6_Witness ==
    \E o \in Orders :
        /\ jobs[o].state = "failed"
        /\ runs[o] = Attempts
        /\ LastWritesOk(writes[o])
        /\ rows[o].status = FAILED
        /\ rows[o].error = Some(DbError)

RoutingFailedFinal(o) ==
    /\ jobs[o].state = "failed"
    /\ runs[o] = Attempts
    /\ rows[o].status = FAILED
    /\ rows[o].attempts = Attempts
    /\ rows[o].error = Some(QuoteError)

(* C7: if routing fails on every attempt of an order, exactly 3 attempts are
   made and the record ends failed, with attempts = 3 and an error. *)
C7_RoutingFailsThrice ==
    \A o \in Orders : [](Submitted(o) => <>[]RoutingFailedFinal(o))

(* every order has been given up after its third routing failure *)
C7_Witness ==
    \A o \in Orders : RoutingFailedFinal(o) /\ pushed[o] = <<PENDING, ROUTING, FAILED>>

HappyFinal(o) ==
    /\ jobs[o].state = "completed"
    /\ runs[o] = 1
    /\ pushed[o] = Chain
    /\ rows[o].status = CONFIRMED
    /\ HasResult(rows[o])

(* C8: when no step fails, the statuses sent for a submitted order are
   exactly pending, routing, building, submitted, confirmed, and the record
   ends confirmed with dex, executedPrice and txHash. *)
C8_HappyPath ==
    /\ [](\A o \in Orders : IsPrefix(pushed[o], Chain))
    /\ \A o \in Orders : [](Submitted(o) => <>[]HappyFinal(o))

(* every order is confirmed, one on each venue *)
C8_Witness ==
    /\ \A o \in Orders : HappyFinal(o)
    /\ \E o, p \in Orders : rows[o].dex = Some(RAYDIUM) /\ rows[p].dex = Some(METEORA)

AttemptsStep(o) ==
    /\ rows'[o].attempts \in {rows[o].attempts, rows[o].attempts + 1}
    /\ rows'[o].attempts = rows[o].attempts + 1 => fails'[o] = fails[o] + 1
    /\ jobs'[o].state = "completed" => rows'[o].attempts = rows[o].attempts

(* C9, as claimed: the attempts counter changes only by +1 and only as part
   of a failed attempt; a successful attempt leaves it unchanged; it always
   equals the number of failed attempts of the order. *)
C9_AttemptsCountFailures ==
    [][\A o \in Orders :
          /\ AttemptsStep(o)
          /\ rows'[o].attempts = fails'[o]]_vars

(* C9, amended: as claimed, but the counter never exceeds the number of
   failed attempts, which never exceeds 3: a failed attempt whose failed
   status write or saveOrderError write is rejected is not counted. *)
C9_AttemptsAtMostFailures ==
    [][\A o \in Orders :
          /\ AttemptsStep(o)
          /\ rows'[o].attempts <= fails'[o]
          /\ fails'[o] <= Attempts]_vars

(* two failed attempts were counted and the third attempt succeeded *)
C9_Witness ==
    \E o \in Orders :
        /\ jobs[o].state = "completed"
        /\ rows[o].attempts = 2
        /\ fails[o] = 2

IsStatusWrite(e) == e[1] \notin {"result", "error"}

(* the statuses whose UPDATE has completed in this attempt *)
StatusesWritten(w) ==
    LET sw == SelectSeq(w, IsStatusWrite) IN [i \in 1..Len(sw) |-> sw[i][1]]

(* C10: the event of a transition is sent before the store write of that
   transition's status, and that write completes before the event of the
   next transition is sent. *)
C10_SendThenWrite ==
    \A o \in Orders :
        IF pc[o][1] = "updateOrderStatus"
        THEN pushed[o] = Append(StatusesWritten(writes[o]), pc[o][2])
        ELSE pushed[o] = StatusesWritten(writes[o])

(* the write of submitted was rejected and failed has been sent *)
C10_Witness ==
    \E o \in Orders :
        /\ pc[o] = AtStatus(FAILED)
        /\ pushed[o] = <<PENDING, ROUTING, BUILDING, SUBMITTED, FAILED>>
        /\ writes[o][4] = Write(SUBMITTED, FALSE)

(* C11, as claimed: when no call to the store or to the router fails, a
   send that throws is suppressed: no attempt fails, failed is neither sent
   nor persisted, no error is recorded and no job is retried. *)
C11_SendErrorSuppressed ==
    \A o \in Orders :
        /\ fails[o] = 0
        /\ caught[o] = Null
        /\ ~Contains(pushed[o], FAILED)
        /\ rows[o].status # FAILED
        /\ rows[o].error = Null
        /\ jobs[o].attemptsMade = 0

pipelineVars == <<rows, jobs, pc, bestQuote, result, caught, pushed, writes,
                  runs, fails>>

(* the store writes of processOrder when no call fails *)
HappyWrites ==
    <<Write(PENDING, TRUE), Write(ROUTING, TRUE), Write(BUILDING, TRUE),
      Write(SUBMITTED, TRUE), Write(CONFIRMED, TRUE), Write("result", TRUE)>>

HubChanges == connections' # connections \/ readyState' # readyState

(* C12: whether and when a client connects to or disconnects from the
   channel of an order, a step of the hub changes nothing of the pipeline,
   the store writes of the order are those of a run with no channel, in the
   same order, and the order ends with the record and the job outcome of a
   run with no channel; a disconnect neither cancels nor blocks it. *)
C12_ChannelDoesNotInfluence ==
    /\ [][HubChanges => UNCHANGED pipelineVars]_vars
    /\ [](\A o \in Orders : IsPrefix(writes[o], HappyWrites))
    /\ \A o \in Orders :
           [](Submitted(o) => <>[](HappyFinal(o) /\ writes[o] = HappyWrites))

(* an order whose client disconnected in the middle of its processing is
   confirmed, as is an order that never had a channel *)
C12_Witness ==
    \E s \in Clients, p \in Orders :
        /\ readyState[s] = CLOSED
        /\ Len(inbox[s]) \in 1..3
        /\ HappyFinal(sockOrder[s])
        /\ p # sockOrder[s]
        /\ HappyFinal(p)

Enqueued(o) == jobs[o].state # "none"

(* persisted confirmed, or persisted failed with the retries exhausted *)
Terminal(o) ==
    \/ rows[o].status = CONFIRMED
    \/ rows[o].status = FAILED /\ fails[o] = Attempts

(* C13, as claimed: under fair scheduling of the queue and the workers an
   enqueued order eventually reaches a terminal state, whatever callers do:
   disconnect, reset the queue, submit further orders. *)
C13_RunsToTerminal ==
    \A o \in Orders : [](Enqueued(o) => <>Terminal(o))

(* JSON.parse of a delivered message *)
JSONparse(j) ==
    [orderId |-> j.orderId, status |-> j.status,
     data |-> IF "data" \in DOMAIN j THEN Some(j.data) ELSE Null]

Last(s) == s[Len(s)]

Registered(o) == connections[o] # NoSocket

(* C14: sendUpdate(orderId, message) appends exactly one message, the
   serialization of its input, to the socket registered for orderId if that
   socket exists and is open, and to no other socket; otherwise it delivers
   nothing; either way it changes nothing else. *)
C14_SendUpdateDelivers ==
    [][\A o \in Orders : \A m \in Messages(o) :
          SendUpdate(o, m) =>
              /\ IF Registered(o) /\ readyState[connections[o]] = OPEN
                 THEN LET c == connections[o] IN
                      /\ Len(inbox'[c]) = Len(inbox[c]) + 1
                      /\ Front(inbox'[c]) = inbox[c]
                      /\ JSONparse(Last(inbox'[c])) = m
                      /\ \A s \in Sockets \ {c} : inbox'[s] = inbox[s]
                 ELSE inbox' = inbox
              /\ UNCHANGED <<connections, readyState, closeCalls>>]_vars

(* an open socket has received one message with data, while a registered
   socket that is closed has received nothing *)
C14_Witness ==
    \E o, p \in Orders :
        /\ Registered(o) /\ Registered(p)
        /\ readyState[connections[o]] = OPEN
        /\ Len(inbox[connections[o]]) = 1
        /\ "data" \in DOMAIN inbox[connections[o]][1]
        /\ readyState[connections[p]] = CLOSED
        /\ inbox[connections[p]] = <<>>

(* C15: unregister(orderId) and closeConnection(orderId) leave no socket
   registered for orderId; while none is registered a sendUpdate(orderId)
   delivers nothing to any socket; and only register(orderId, ...) registers
   one again. *)
C15_NoDeliveryAfterUnregister ==
    [][\A o \in Orders :
          /\ Unregister(o) \/ CloseConnection(o) => ~Registered(o)'
          /\ ~Registered(o) =>
                 /\ \A m \in Messages(o) : SendUpdate(o, m) => inbox' = inbox
                 /\ Registered(o)' => \E s \in Sockets : Register(o, s)]_vars

(* a socket that received an update of its order has been unregistered and
   is still open *)
C15_Witness ==
    \E o \in Orders, s \in Sockets :
        /\ ~Registered(o)
        /\ readyState[s] = OPEN
        /\ closeCalls[s] = 0
        /\ Len(inbox[s]) = 1
        /\ inbox[s][1].orderId = o

(* C16: closeConnection(orderId) calls close once on the socket registered
   for orderId and removes the mapping; with no socket registered it calls
   no close and changes no mapping; close is called by nothing else, so a
   second closeConnection of the same id closes nothing. *)
C16_CloseConnectionOnce ==
    [][/\ \A o \in Orders :
             CloseConnection(o) =>
                 IF Registered(o)
                 THEN /\ closeCalls' = [closeCalls EXCEPT
                                           ![connections[o]] = @ + 1]
                      /\ connections' = [connections EXCEPT ![o] = NoSocket]
                 ELSE UNCHANGED <<closeCalls, connections>>
       /\ closeCalls' # closeCalls =>
              \E o \in Orders : Registered(o) /\ CloseConnection(o)]_vars

(* a socket that received an update has been closed once by closeConnection
   and is no longer registered *)
C16_Witness ==
    \E o \in Orders, s \in Sockets :
        /\ closeCalls[s] = 1
        /\ readyState[s] = CLOSED
        /\ \A p \in Orders : connections[p] # s
        /\ Len(inbox[s]) = 1
        /\ inbox[s][1].orderId = o

(* C17: a sendUpdate for an order id changes the inbox of no socket other
   than the one registered for that id, which receives at most one message,
   addressed to that id; a registration changes no inbox and no mapping of
   another id. *)
C17_NoCrossDelivery ==
    [][/\ \A o \in Orders : \A m \in Messages(o) :
             SendUpdate(o, m) =>
                 \A s \in Sockets :
                     IF s = connections[o]
                     THEN inbox'[s] # inbox[s] =>
                              /\ Len(inbox'[s]) = Len(inbox[s]) + 1
                              /\ Last(inbox'[s]).orderId = o
                     ELSE inbox'[s] = inbox[s]
       /\ \A o \in Orders, s \in Sockets :
             Register(o, s) =>
                 /\ inbox' = inbox
                 /\ \A p \in Orders \ {o} :
                        connections'[p] = connections[p]]_vars

(* every order id is registered with an open socket of its own, and every
   socket has received exactly one message, the one of its order id *)
C17_Witness ==
    /\ \A o \in Orders :
           /\ Registered(o)
           /\ readyState[connections[o]] = OPEN
           /\ Len(inbox[connections[o]]) = 1
           /\ inbox[connections[o]][1].orderId = o
    /\ \A o, p \in Orders : o # p => connections[o] # connections[p]

(* C18: an order id is mapped to at most one socket, and that socket is
   the one of the latest register call for the id: register(id, c2) after
   register(id, c1) makes c2 the socket of id, and a message for id is
   delivered to the socket of the latest register call and to no other. *)
C18_LastWriterWins ==
    /\ [](\A o \in Orders :
             /\ Cardinality({s \in Sockets : connections[o] = s}) <= 1
             /\ connections[o] \in {NoSocket, lastSocket[o]})
    /\ [][/\ \A o \in Orders, s \in Sockets :
                Register(o, s) => connections'[o] = s
          /\ \A s \in Sockets :
                inbox'[s] # inbox[s] =>
                    lastSocket[Last(inbox'[s]).orderId] = s]_vars

(* the first socket registered for an id received an update, then a second
   socket was registered for the same id and received the next update *)
C18_Witness ==
    \E o \in Orders, c1, c2 \in Sockets :
        /\ c1 # c2
        /\ connections[o] = c2
        /\ readyState[c1] = OPEN /\ readyState[c2] = OPEN
        /\ Len(inbox[c1]) = 1 /\ inbox[c1][1].orderId = o
        /\ Len(inbox[c2]) = 1 /\ inbox[c2][1].orderId = o

(* a valid submission, in the words of the specification *)
ValidOrder(body) ==
    /\ body.type # Null /\ body.tokenIn # Null /\ body.tokenOut # Null
    /\ body.amountIn # Null
    /\ NumberOf(body.amountIn) > 0
    /\ body.tokenIn # body.tokenOut

(* the POST handler has handled the request body *)
Posted(body) ==
    \/ PostExecuteRefused(body)
    \/ \E o \in Orders : PostExecute(o, body)

(* C19, as claimed: every submission that is not valid is answered with the
   error "Invalid order parameters" and leaves the orders table and the
   queue as they were. *)
C19_InvalidRejected ==
    [][\A body \in Bodies :
          ~ValidOrder(body) /\ Posted(body) =>
              /\ Rejected \in replies'
              /\ rows' = rows
              /\ jobs' = jobs]_vars

RowInserted(o) == rows[o].status = "none" /\ rows'[o].status # "none"

JobEnqueued(o) == jobs[o].state = "none" /\ jobs'[o].state # "none"

(* C20: a valid submission is not refused; a submission that is let through
   inserts one row, pending with attempts 0, under an id that has no row, no
   job and no reply yet; the job of an id is enqueued once, after the row of
   the id was inserted, and the reply then carries that id; no job exists
   and no worker runs for an id without a row; and every submission that
   inserted its row is answered with its id. *)
C20_ValidAccepted ==
    /\ [](\A body \in Bodies : ValidOrder(body) => ~Refuses(body))
    /\ [](\A o \in Orders :
             /\ Enqueued(o) \/ pc[o] # Idle => Submitted(o)
             /\ Created(o) \in replies <=> Enqueued(o))
    /\ [][\A o \in Orders :
             /\ RowInserted(o) =>
                    /\ rows'[o].status = PENDING
                    /\ rows'[o].attempts = 0
                    /\ ~Enqueued(o) /\ ~Enqueued(o)'
                    /\ \A p \in Orders \ {o} : rows'[p] = rows[p]
             /\ JobEnqueued(o) =>
                    /\ Submitted(o)
                    /\ jobs'[o].state = "waiting"
                    /\ replies' = replies \cup {Created(o)}
                    /\ \A p \in Orders \ {o} : jobs'[p] = jobs[p]
             /\ Submitted(o) => Submitted(o)'
             /\ Enqueued(o) => Enqueued(o)']_vars
    /\ \A o \in Orders : [](Submitted(o) => <>(Created(o) \in replies))

(* two valid submissions: one is answered and its job is being processed,
   the row of the other is inserted and its job not yet enqueued *)
C20_Witness ==
    \E o, p \in Orders :
        /\ jobs[o].state = "active"
        /\ Created(o) \in replies
        /\ rows[o].tokenIn # rows[o].tokenOut
        /\ rows[p].status = PENDING /\ rows[p].attempts = 0
        /\ rows[p].tokenIn # rows[p].tokenOut
        /\ ~Enqueued(p)
        /\ Created(p) \notin replies



(* ============================ MockDexRouter on its own =================== *)

(* The router called directly, as its unit tests call it: getBestQuote with
   the amount of an order and the prices the two venues answer with, then
   executeSwap with the quote it returned. *)
RouterGetBestQuote(o, amount, pr, pm) ==
    /\ bestQuote' = [bestQuote EXCEPT ![o] = Some(getBestQuote(amount, pr, pm))]
    /\ UNCHANGED <<rows, jobs, pc, result, caught, hubVars, replies, swaps,
                   adds, backoffs, fetches, wsPc, pushed, writes, runs, fails,
                   faults>>

RouterExecuteSwap(o, amount, slip, hash) ==
    /\ bestQuote[o] # Null
    /\ result' = [result EXCEPT
                     ![o] = Some(executeSwap(amount, bestQuote[o][1], slip, hash))]
    /\ UNCHANGED <<rows, jobs, pc, bestQuote, caught, hubVars, replies, swaps,
                   adds, backoffs, fetches, wsPc, pushed, writes, runs, fails,
                   faults>>

NextRouter ==
    \/ \E o \in Orders, a \in QuoteAmounts, pr \in QuotePrices, pm \in QuotePrices :
           RouterGetBestQuote(o, a, pr, pm)
    \/ \E o \in Orders, a \in QuoteAmounts, sl \in Slippages, h \in TxHashes :
           RouterExecuteSwap(o, a, sl, h)

SpecRouter == Init /\ [][NextRouter]_vars

(* the two venues' outputs are exactly equal *)
Tie(amount, pr, pm) ==
    getRaydiumQuote(amount, pr).estimatedOutput
        = getMeteorQuote(amount, pm).estimatedOutput

(* ---- C21 ---- *)
(* C21: getBestQuote returns one of the two quotes fetched in the call, and
   its estimatedOutput is at least that of each of them *)
C21_BestQuoteIsLarger ==
    [][\A o \in Orders, a \in QuoteAmounts, pr \in QuotePrices, pm \in QuotePrices :
          RouterGetBestQuote(o, a, pr, pm) =>
              LET q == bestQuote'[o][1]
                  raydiumQuote == getRaydiumQuote(a, pr)
                  meteoraQuote == getMeteorQuote(a, pm)
              IN  /\ q \in {raydiumQuote, meteoraQuote}
                  /\ q.estimatedOutput >= raydiumQuote.estimatedOutput
                  /\ q.estimatedOutput >= meteoraQuote.estimatedOutput]_vars

(* one call returned the quote of Raydium, another the quote of Meteora *)
C21_Witness ==
    \E o, p \in Orders :
        /\ bestQuote[o] # Null /\ bestQuote[o][1].dex = RAYDIUM
        /\ bestQuote[p] # Null /\ bestQuote[p][1].dex = METEORA

(* ---- C22 ---- *)
(* C22 as claimed: when the two outputs are equal, getBestQuote returns the
   quote of the first venue, Raydium *)
C22_TieReturnsRaydium ==
    [][\A o \in Orders, a \in QuoteAmounts, pr \in QuotePrices, pm \in QuotePrices :
          RouterGetBestQuote(o, a, pr, pm) /\ Tie(a, pr, pm) =>
              bestQuote'[o] = Some(getRaydiumQuote(a, pr))]_vars

(* C22 amended: when the two outputs are equal, getBestQuote returns the
   quote of the second venue, Meteora, on every such call *)
C22_TieReturnsMeteora ==
    [][\A o \in Orders, a \in QuoteAmounts, pr \in QuotePrices, pm \in QuotePrices :
          RouterGetBestQuote(o, a, pr, pm) /\ Tie(a, pr, pm) =>
              bestQuote'[o] = Some(getMeteorQuote(a, pm))]_vars

(* a call whose two venues tied has returned *)
C22_Witness ==
    \E o \in Orders, a \in QuoteAmounts, pr \in QuotePrices, pm \in QuotePrices :
        /\ Tie(a, pr, pm)
        /\ bestQuote[o] = Some(getBestQuote(a, pr, pm))
        /\ result[o] = Null


(* ===================== the queue with repeated adds ==================== *)

(* Orders are processed without failures while addOrder is called again
   with ids that were enqueued before. *)
NextAddAgain ==
    \/ NextHappy
    \/ \E o \in Orders : AddOrderAgain(o)

SpecAddAgain == Init /\ [][NextAddAgain]_vars

(* ---- C24 ---- *)
(* C24: an order id has one job at a time: a worker takes an order only
   when no run of processOrder for that id is under way, a run under way
   belongs to the active job of its id, and an add for an id that has a job
   leaves that job, every run and every count of runs as they are *)
C24_OneJobPerOrder ==
    /\ [](\A o \in Orders : pc[o] # Idle => jobs[o].state = "active")
    /\ [][\A o \in Orders :
             /\ runs'[o] # runs[o] =>
                    /\ runs'[o] = runs[o] + 1
                    /\ pc[o] = Idle
                    /\ jobs[o].state = "waiting"
             /\ adds'[o] # adds[o] /\ jobs[o].state # "none" =>
                    /\ jobs' = jobs
                    /\ pc' = pc
                    /\ runs' = runs]_vars

(* an order that was added twice has run once and is completed *)
C24_Witness ==
    \E o \in Orders :
        /\ adds[o] = 2
        /\ runs[o] = 1
        /\ jobs[o].state = "completed"
        /\ rows[o].status = CONFIRMED


(* ---- C25 ---- *)
(* C25: nothing is replayed to a channel: a socket receives nothing in the
   step that registers it nor while it is not open, and whatever it receives
   is one message, for its own order, with the status pushed in that very
   step *)
C25_NoReplay ==
    [][\A s \in Sockets :
          /\ readyState[s] # OPEN => inbox'[s] = inbox[s]
          /\ inbox'[s] # inbox[s] =>
                 /\ Front(inbox'[s]) = inbox[s]
                 /\ Last(inbox'[s]).orderId = sockOrder[s]
                 /\ pushed'[sockOrder[s]] =
                        Append(pushed[sockOrder[s]], Last(inbox'[s]).status)]_vars

(* a socket that registered after pending and routing were pushed has
   received building as its first message and everything pushed since *)
C25_Witness ==
    \E s \in Sockets :
        /\ readyState[s] = OPEN
        /\ sockOrder[s] \in Orders
        /\ pushed[sockOrder[s]] = Chain
        /\ [i \in 1..Len(inbox[s]) |-> inbox[s][i].status]
               = <<BUILDING, SUBMITTED, CONFIRMED>>


(* ---- C26 ---- *)
(* C26: every attempt, a retry included, starts with pending as its first
   pushed status and with no quote and no result; a quote appears only when
   getBestQuote resolves in the attempt under way; and executeSwap resolves
   only after pending, routing, building and submitted of the attempt, with
   the quote of the attempt, whose venue the result carries *)
C26_RetryRunsFullSequence ==
    [][\A o \in Orders :
          /\ runs'[o] # runs[o] =>
                 /\ pushed'[o] = <<PENDING>>
                 /\ bestQuote'[o] = Null
                 /\ result'[o] = Null
          /\ bestQuote'[o] # bestQuote[o] /\ bestQuote'[o] # Null =>
                 /\ pc[o] = AtGetBestQuote
                 /\ bestQuote[o] = Null
                 /\ pushed[o] = <<PENDING, ROUTING>>
          /\ swaps'[o] # swaps[o] =>
                 /\ pc[o] = AtExecuteSwap
                 /\ pushed[o] = <<PENDING, ROUTING, BUILDING, SUBMITTED>>
                 /\ bestQuote[o] # Null
                 /\ bestQuote'[o] = bestQuote[o]
                 /\ result'[o] # Null
                 /\ IF bestQuote[o] # Null /\ result'[o] # Null
                    THEN result'[o][1].dex = bestQuote[o][1].dex
                    ELSE FALSE]_vars

(* a retry of an order whose earlier attempt had executed a swap is about
   to execute one with the quote it has fetched itself *)
C26_Witness ==
    \E o \in Orders :
        /\ jobs[o].attemptsMade >= 1
        /\ swaps[o] = 1
        /\ pc[o] = AtExecuteSwap
        /\ bestQuote[o] # Null
        /\ pushed[o] = <<PENDING, ROUTING, BUILDING, SUBMITTED>>


(* ---- C27 ---- *)
(* the status whose UPDATE processOrder is waiting for, if any *)
StatusAt(o) == IF Len(pc[o]) = 2 THEN pc[o][2] ELSE "none"

(* the queue has taken the failure of the attempt of o: one more attempt
   made, and a retry unless that was the third *)
FailedAtQueue(o) ==
    /\ pc'[o] = Idle
    /\ fails'[o] = fails[o] + 1
    /\ jobs'[o].attemptsMade = jobs[o].attemptsMade + 1
    /\ jobs'[o].state =
           IF jobs[o].attemptsMade + 1 < Attempts THEN "delayed" ELSE "failed"

(* the catch block has been entered with msg, as after a routing error *)
CatchEntered(o, msg) ==
    /\ pc'[o] = AtStatus(FAILED)
    /\ pushed'[o] = Append(pushed[o], FAILED)
    /\ caught'[o] = Some(msg)
    /\ jobs'[o] = jobs[o]
    /\ rows' = rows

(* C27: a store write of the try block that is rejected enters the catch
   block exactly as a rejected getBestQuote does: failed is pushed with the
   error; when the writes of the catch block succeed the error is recorded,
   attempts is incremented and the queue takes the failure, retrying within
   3 attempts; when the write of failed or of the error is itself rejected
   the queue takes the failure and retries all the same *)
C27_PersistenceErrorFailsAttempt ==
    [][\A o \in Orders :
          /\ StatusQueryFail(o) /\ StatusAt(o) # FAILED => CatchEntered(o, DbError)
          /\ SaveOrderResultFail(o) => CatchEntered(o, DbError)
          /\ GetBestQuoteFail(o) => CatchEntered(o, QuoteError)
          /\ StatusQueryOk(o) /\ StatusAt(o) = FAILED =>
                 /\ rows'[o].status = FAILED
                 /\ pc'[o] = AtSaveOrderError
                 /\ caught'[o] = caught[o]
          /\ SaveOrderErrorOk(o) =>
                 /\ rows'[o].error = caught[o]
                 /\ rows'[o].attempts = rows[o].attempts + 1
                 /\ jobs'[o].failedReason = caught[o]
                 /\ FailedAtQueue(o)
          /\ StatusQueryFail(o) /\ StatusAt(o) = FAILED =>
                 /\ rows' = rows
                 /\ jobs'[o].failedReason = Some(DbError)
                 /\ FailedAtQueue(o)
          /\ SaveOrderErrorFail(o) =>
                 /\ rows' = rows
                 /\ jobs'[o].failedReason = Some(DbError)
                 /\ FailedAtQueue(o)]_vars

(* one order waits for its retry after a rejected write of the try block,
   with failed pushed, the error recorded and attempts incremented; another
   waits for its retry after the write of failed itself was rejected *)
C27_Witness ==
    \E o, p \in Orders :
        /\ jobs[o].state = "delayed"
        /\ jobs[o].failedReason = Some(DbError)
        /\ rows[o].status = FAILED
        /\ rows[o].error = Some(DbError)
        /\ rows[o].attempts = 1
        /\ jobs[p].state = "delayed"
        /\ jobs[p].failedReason = Some(DbError)
        /\ jobs[p].attemptsMade = 1
        /\ rows[p].status # FAILED
        /\ rows[p].attempts = 0


(* ---- C29 ---- *)
(* the jobs getQueueStats counts in a category *)
Count(state) == Cardinality({o \in Orders : jobs[o].state = state})

(* C29 as claimed: after resetQueue the waiting, active, completed, failed
   and delayed counts are all zero, and every row of the orders table is as
   it was *)
C29_ResetDrainsAll ==
    [][resetQueue =>
          /\ \A st \in {"waiting", "active", "completed", "failed", "delayed"} :
                 Count(st)' = 0
          /\ rows' = rows]_vars


(* ================= the update channel with routing failures ============ *)

(* Clients connect to and disconnect from the update channel while orders
   are processed and getBestQuote may reject; the store works. *)
NextHubRoutingFails ==
    \/ NextHub
    \/ \E o \in Orders : Fault /\ GetBestQuoteFail(o)
    \/ \E o \in Orders : SaveOrderErrorOk(o)
    \/ \E o \in Orders : BackoffElapsed(o)

SpecHubRoutingFails == Init /\ [][NextHubRoutingFails]_vars

(* ---- C30 ---- *)
(* the keys of the data of a delivered message; none when it has no data *)
DataKeys(m) == IF "data" \in DOMAIN m THEN DOMAIN m.data ELSE {}

(* C30: every message delivered to a socket carries the id of the order the
   socket is registered for, and data by its status: dex and price for
   building; dex, price and txHash for confirmed; error for failed; no data
   for pending, routing and submitted *)
C30_DataByStatus ==
    \A s \in Sockets : \A i \in 1..Len(inbox[s]) :
        LET m == inbox[s][i] IN
        /\ m.orderId = sockOrder[s]
        /\ m.status \in {PENDING, ROUTING, BUILDING, SUBMITTED, CONFIRMED, FAILED}
        /\ m.status \in {PENDING, ROUTING, SUBMITTED} => "data" \notin DOMAIN m
        /\ m.status \in {BUILDING, CONFIRMED, FAILED} => "data" \in DOMAIN m
        /\ m.status = BUILDING => DataKeys(m) = {"dex", "price"}
        /\ m.status = CONFIRMED => DataKeys(m) = {"dex", "price", "txHash"}
        /\ m.status = FAILED => DataKeys(m) = {"error"}

(* a socket has received every status: those of an attempt whose routing
   failed, then those of the retry that confirmed *)
C30_Witness ==
    \E s \in Sockets :
        [i \in 1..Len(inbox[s]) |-> inbox[s][i].status]
            = <<PENDING, ROUTING, FAILED>> \o Chain

(* ---- C28 ---- *)
(* C28: a swap is produced once per order: over all the attempts of an
   order, executeSwap resolves at most once *)
C28_SwapAtMostOnce ==
    \A o \in Orders : swaps[o] <= 1


(* ============================ getQueueStats ============================ *)

(* getQueueStats(): the five counts of the queue, under the key queue *)
getQueueStats ==
    [queue |-> [waiting |-> Count("waiting"),
                active |-> Count("active"),
                completed |-> Count("completed"),
                failed |-> Count("failed"),
                delayed |-> Count("delayed")]]

(* ---- C31 ---- *)
(* C31 as claimed: the object getQueueStats returns has waiting, active,
   completed and failed as its own top-level properties, each the number of
   jobs of the queue in that category *)
C31_StatsTopLevel ==
    LET stats == getQueueStats IN
    IF {"waiting", "active", "completed", "failed"} \subseteq DOMAIN stats
    THEN /\ stats.waiting = Count("waiting")
         /\ stats.active = Count("active")
         /\ stats.completed = Count("completed")
         /\ stats.failed = Count("failed")
    ELSE FALSE

(* ---- C32 ---- *)
(* C32 as claimed: the backoff delays an always-failing order has waited
   through when its third attempt has failed are 2 s, 4 s and 8 s *)
C32_BackoffsTwoFourEight ==
    \A o \in Orders :
        jobs[o].state = "failed" => backoffs[o] = <<2000, 4000, 8000>>

(* C32 amended: an attempt after the first starts only when the backoff
   delay of the failure before it has elapsed; the delays start at 2 s and
   double, and the 3 attempts of an always-failing order have two of them
   between them, 2 s and 4 s *)
C32_BackoffsTwoFour ==
    \A o \in Orders :
        /\ runs[o] <= Len(backoffs[o]) + 1
        /\ IsPrefix(backoffs[o], <<2000, 4000>>)
        /\ jobs[o].state = "delayed" => Len(backoffs[o]) = jobs[o].attemptsMade - 1
        /\ jobs[o].state = "failed" =>
               /\ runs[o] = Attempts
               /\ backoffs[o] = <<2000, 4000>>

(* an order has failed its third attempt after waiting 2 s and then 4 s *)
C32_Witness ==
    \E o \in Orders :
        /\ jobs[o].state = "failed"
        /\ runs[o] = 3
        /\ backoffs[o] = <<2000, 4000>>


(* ===================== getBestQuote, fetch by fetch ===================== *)

(* getBestQuote is called: the array handed to Promise.all is built, which
   calls getRaydiumQuote and getMeteorQuote, each up to its await sleep *)
GetBestQuoteCalled(o, amount) ==
    /\ fetches[o].started = {} \/ fetches[o].joined
    /\ fetches' = [fetches EXCEPT
                      ![o] = [NoCall EXCEPT !.amount = amount,
                                            !.started = {RAYDIUM, METEORA}]]
    /\ UNCHANGED <<rows, jobs, pc, localVars, hubVars, replies, swaps, adds,
                   backoffs, wsPc, pushed, writes, runs, fails, faults>>

(* the quote of Raydium resolves *)
RaydiumQuoteResolves(o, price) ==
    /\ RAYDIUM \in fetches[o].started
    /\ fetches[o].raydium = Null
    /\ fetches' = [fetches EXCEPT
                      ![o].raydium = Some(getRaydiumQuote(fetches[o].amount, price)),
                      ![o].first = IF @ = "none" THEN RAYDIUM ELSE @]
    /\ UNCHANGED <<rows, jobs, pc, localVars, hubVars, replies, swaps, adds,
                   backoffs, wsPc, pushed, writes, runs, fails, faults>>

(* the quote of Meteora resolves *)
MeteoraQuoteResolves(o, price) ==
    /\ METEORA \in fetches[o].started
    /\ fetches[o].meteora = Null
    /\ fetches' = [fetches EXCEPT
                      ![o].meteora = Some(getMeteorQuote(fetches[o].amount, price)),
                      ![o].first = IF @ = "none" THEN METEORA ELSE @]
    /\ UNCHANGED <<rows, jobs, pc, localVars, hubVars, replies, swaps, adds,
                   backoffs, wsPc, pushed, writes, runs, fails, faults>>

(* mutant: the first quote to resolve is returned, as with Promise.race *)
PromiseAllResolves_FirstWins(o) ==
    /\ ~fetches[o].joined
    /\ fetches[o].first # "none"
    /\ bestQuote' = [bestQuote EXCEPT
                        ![o] = IF fetches[o].first = RAYDIUM
                               THEN fetches[o].raydium
                               ELSE fetches[o].meteora]
    /\ fetches' = [fetches EXCEPT ![o].joined = TRUE]
    /\ UNCHANGED <<rows, jobs, pc, result, caught, hubVars, replies, swaps,
                   adds, backoffs, wsPc, pushed, writes, runs, fails, faults>>

(* Promise.all resolves, both quotes being there, and getBestQuote returns
   the one it selects *)
PromiseAllResolves(o) ==
    /\ ~fetches[o].joined
    /\ fetches[o].raydium # Null
    /\ fetches[o].meteora # Null
    /\ bestQuote' = [bestQuote EXCEPT
                        ![o] = Some(getBestQuote(fetches[o].amount,
                                                 fetches[o].raydium[1].price,
                                                 fetches[o].meteora[1].price))]
    /\ fetches' = [fetches EXCEPT ![o].joined = TRUE]
    /\ UNCHANGED <<rows, jobs, pc, result, caught, hubVars, replies, swaps,
                   adds, backoffs, wsPc, pushed, writes, runs, fails, faults>>

NextJoin ==
    \/ \E o \in Orders, a \in QuoteAmounts : GetBestQuoteCalled(o, a)
    \/ \E o \in Orders, pr \in QuotePrices : RaydiumQuoteResolves(o, pr)
    \/ \E o \in Orders, pm \in QuotePrices : MeteoraQuoteResolves(o, pm)
    \/ \E o \in Orders : PromiseAllResolves(o)

SpecJoin == Init /\ [][NextJoin]_vars

(* ---- C33 ---- *)
(* C33: a call of getBestQuote starts both fetches before either has
   resolved; it returns only when both have resolved; and what it returns
   is fixed by the two quotes alone, whichever resolved first: one of the
   two, with the larger output, Meteora's when the outputs are equal *)
C33_JoinSemantics ==
    /\ [](\A o \in Orders :
             /\ fetches[o].raydium # Null \/ fetches[o].meteora # Null =>
                    fetches[o].started = {RAYDIUM, METEORA}
             /\ fetches[o].joined =>
                    fetches[o].raydium # Null /\ fetches[o].meteora # Null)
    /\ [][\A o \in Orders :
             /\ fetches[o].started = {} /\ fetches'[o].started # {} =>
                    /\ fetches'[o].started = {RAYDIUM, METEORA}
                    /\ fetches'[o].raydium = Null
                    /\ fetches'[o].meteora = Null
             /\ bestQuote'[o] # bestQuote[o] \/ (fetches'[o].joined /\ ~fetches[o].joined) =>
                    IF fetches[o].raydium # Null /\ fetches[o].meteora # Null
                    THEN LET r == fetches[o].raydium[1]
                             m == fetches[o].meteora[1]
                         IN  bestQuote'[o] =
                                 IF r.estimatedOutput > m.estimatedOutput
                                 THEN Some(r) ELSE Some(m)
                    ELSE FALSE]_vars

(* two calls with the same two quotes, Raydium's the better one, have
   returned the same quote although Raydium resolved first in one of them
   and Meteora in the other *)
C33_Witness ==
    \E o, p \in Orders :
        /\ fetches[o].joined /\ fetches[p].joined
        /\ fetches[o].first = RAYDIUM /\ fetches[p].first = METEORA
        /\ fetches[o].raydium = fetches[p].raydium
        /\ fetches[o].meteora = fetches[p].meteora
        /\ bestQuote[o] = fetches[o].raydium
        /\ bestQuote[p] = bestQuote[o]


(* ---- C34 ---- *)
(* C34: a step of the processing of an order leaves the row, the job, the
   position, the pushed statuses and the store writes of every other order
   as they are, and what it delivers is one message with its own id to the
   socket registered for it *)
C34_OrdersIndependent ==
    [][\A o \in Orders :
          pc'[o] # pc[o] \/ jobs'[o] # jobs[o] =>
              /\ \A p \in Orders \ {o} :
                     /\ rows'[p] = rows[p]
                     /\ jobs'[p] = jobs[p]
                     /\ pc'[p] = pc[p]
                     /\ pushed'[p] = pushed[p]
                     /\ writes'[p] = writes[p]
                     /\ connections[p] # NoSocket /\ connections[p] # connections[o] =>
                            inbox'[connections[p]] = inbox[connections[p]]
              /\ \A s \in Sockets :
                     inbox'[s] # inbox[s] =>
                         /\ s = connections[o]
                         /\ Front(inbox'[s]) = inbox[s]
                         /\ Last(inbox'[s]).orderId = o]_vars

(* two orders are being processed at the same time, at different points,
   and the client of one of them has received its statuses so far *)
C34_Witness ==
    \E o, p \in Orders :
        /\ pc[o] = AtExecuteSwap /\ rows[o].status = SUBMITTED
        /\ pc[p] = AtGetBestQuote /\ rows[p].status = ROUTING
        /\ connections[p] # NoSocket
        /\ Len(inbox[connections[p]]) = 2


(* ---- C35 ---- *)
(* the status persisted for o is the one pushed last or the one pushed
   just before it, as far as the pushes of the attempt under way tell *)
WithinOnePush(o) ==
    LET n == Len(pushed[o]) IN
    /\ n >= 2 => rows[o].status \in {pushed[o][n], pushed[o][n - 1]}
    /\ n = 1 /\ jobs[o].attemptsMade = 0 => rows[o].status = pushed[o][1]

(* no UPDATE of a status was rejected in the attempt of o under way *)
NoStatusWriteRejected(o) ==
    \A i \in 1..Len(writes[o]) : IsStatusWrite(writes[o][i]) => writes[o][i][2]

(* C35 as claimed: in every state the persisted status of an order is the
   status pushed last for it or the one pushed just before *)
C35_StoreWithinOnePush ==
    \A o \in Orders : WithinOnePush(o)

(* C35 amended: the same, as long as the store has accepted every status
   UPDATE of the attempt under way; the store never runs ahead of the
   pushes, since a status is pushed before it is written *)
C35_StoreWithinOnePushIfAccepted ==
    \A o \in Orders :
        /\ NoStatusWriteRejected(o) => WithinOnePush(o)
        /\ Len(pushed[o]) >= 1 /\ jobs[o].attemptsMade = 0 =>
               Contains(pushed[o], rows[o].status)

(* the store lags by one: routing was pushed and pending is persisted *)
C35_Witness ==
    \E o \in Orders :
        /\ pushed[o] = <<PENDING, ROUTING>>
        /\ rows[o].status = PENDING
        /\ pc[o] = AtStatus(ROUTING)


(* ================= several clients on the update channel =============== *)

(* Orders are processed without failures while any of the sockets connects
   to and disconnects from the update channel of any order, so that two
   sockets may ask for the same order. *)
NextClients ==
    \/ NextHappy
    \/ \E s \in Sockets, o \in Orders : WsConnect(s, o)
    \/ \E s \in Sockets : WsClose(s)

SpecClients == Init /\ [][NextClients]_vars

(* ---- C36 ---- *)
(* C36 as claimed: the close or error of a socket removes no registration
   but its own: an order registered to another socket stays registered to
   that socket *)
C36_CloseRemovesOwnOnly ==
    [][\A s \in Sockets :
          readyState[s] = OPEN /\ readyState'[s] = CLOSED =>
              \A o \in Orders :
                  connections[o] # s => connections'[o] = connections[o]]_vars


(* ===================== WebSocket: submit order ========================= *)

(* the messages a client may send on the submission socket *)
WsBodies ==
    [tokenIn : {Some("SOL")}, tokenOut : {Some("USDC")},
     amount : {Some(x) : x \in Amounts}]

(* the validation of the message handler refuses the message *)
WsRefuses(m) ==
    \/ FalsyString(m.tokenIn)
    \/ FalsyString(m.tokenOut)
    \/ FalsyNumber(m.amount)
    \/ NumberOf(m.amount) <= 0

(* socket.send(text) by a route handler: delivered if the socket is open *)
SocketSend(s, text) ==
    IF readyState[s] = OPEN
    THEN [inbox EXCEPT ![s] = Append(@, text)]
    ELSE inbox

(* GET /api/orders/ws: a socket connects to the submission endpoint; it is
   registered for no order *)
WsSubmitConnect(s) ==
    /\ readyState[s] = FRESH
    /\ readyState' = [readyState EXCEPT ![s] = OPEN]
    /\ UNCHANGED <<rows, jobs, pc, localVars, connections, sockOrder, inbox,
                   closeCalls, lastSocket, replies, swaps, adds, backoffs,
                   fetches, wsPc, pushed, writes, runs, fails, faults>>

(* a submission socket closes: the route has no close handler that touches
   the hub *)
WsSubmitClose(s) ==
    /\ readyState[s] = OPEN
    /\ sockOrder[s] = 0
    /\ readyState' = [readyState EXCEPT ![s] = CLOSED]
    /\ UNCHANGED <<rows, jobs, pc, localVars, connections, sockOrder, inbox,
                   closeCalls, lastSocket, replies, swaps, adds, backoffs,
                   fetches, wsPc, pushed, writes, runs, fails, faults>>

(* mutant: the message handler tells the socket the id and does not
   register it *)
WsSubmitMessage_NoRegister(s, o, m) ==
    /\ readyState[s] = OPEN
    /\ sockOrder[s] = 0
    /\ ~WsRefuses(m)
    /\ rows[o].status = "none" /\ wsPc[o] = NoSubmission
    /\ \A p \in Orders : p < o => rows[p].status # "none" \/ wsPc[p] # NoSubmission
    /\ inbox' = SocketSend(s, [orderId |-> o, message |-> "Order submitted",
                               status |-> "processing"])
    /\ wsPc' = [wsPc EXCEPT
                   ![o] = [at |-> "insert", socket |-> s, message |-> Some(m)]]
    /\ UNCHANGED <<rows, jobs, pc, localVars, connections, lastSocket,
                   readyState, sockOrder, closeCalls, replies, swaps, adds,
                   backoffs, fetches, pushed, writes, runs, fails, faults>>

(* the message handler with a message the validation lets through, up to
   its await of the INSERT: the order id is fresh, the socket is told the
   id and is registered for it *)
WsSubmitMessage(s, o, m) ==
    /\ readyState[s] = OPEN
    /\ sockOrder[s] = 0
    /\ ~WsRefuses(m)
    /\ rows[o].status = "none" /\ wsPc[o] = NoSubmission
    /\ \A p \in Orders : p < o => rows[p].status # "none" \/ wsPc[p] # NoSubmission
    /\ inbox' = SocketSend(s, [orderId |-> o, message |-> "Order submitted",
                               status |-> "processing"])
    /\ connections' = register(connections, o, s)
    /\ lastSocket' = [lastSocket EXCEPT ![o] = s]
    /\ wsPc' = [wsPc EXCEPT
                   ![o] = [at |-> "insert", socket |-> s, message |-> Some(m)]]
    /\ UNCHANGED <<rows, jobs, pc, localVars, readyState, sockOrder, closeCalls,
                   replies, swaps, adds, backoffs, fetches, pushed, writes,
                   runs, fails, faults>>

(* the INSERT of the message handler succeeds; addOrder is awaited *)
WsInsertOk(o) ==
    /\ wsPc[o].at = "insert"
    /\ LET m == wsPc[o].message[1] IN
       rows' = [rows EXCEPT ![o] = [NoRow EXCEPT !.status = PENDING,
                                                 !.tokenIn = m.tokenIn,
                                                 !.tokenOut = m.tokenOut,
                                                 !.amountIn = NumberOf(m.amount)]]
    /\ wsPc' = [wsPc EXCEPT ![o].at = "add"]
    /\ UNCHANGED <<jobs, pc, localVars, hubVars, replies, swaps, adds,
                   backoffs, fetches, pushed, writes, runs, fails, faults>>

(* the INSERT or addOrder is rejected: the catch of the message handler
   sends the error to the socket; the registration is left as it is *)
WsSubmitFail(o) ==
    /\ wsPc[o].at \in {"insert", "add"}
    /\ inbox' = SocketSend(wsPc[o].socket, [error |-> DbError])
    /\ wsPc' = [wsPc EXCEPT ![o].at = "failed"]
    /\ UNCHANGED <<rows, jobs, pc, localVars, connections, readyState, sockOrder,
                   closeCalls, lastSocket, replies, swaps, adds, backoffs,
                   fetches, pushed, writes, runs, fails>>

(* addOrder of the message handler succeeds: the job is in the queue *)
WsAddOrderOk(o) ==
    /\ wsPc[o].at = "add"
    /\ jobs' = [jobs EXCEPT ![o] = queueAdd(@)]
    /\ adds' = [adds EXCEPT ![o] = @ + 1]
    /\ wsPc' = [wsPc EXCEPT ![o].at = "done"]
    /\ UNCHANGED <<rows, pc, localVars, hubVars, replies, swaps, backoffs,
                   fetches, pushed, writes, runs, fails, faults>>


(* a call that is rejected while orders come in over WebSockets, within the
   budget *)
Reject ==
    /\ faults < MaxRejects
    /\ faults' = faults + 1

(* a step of the worker slot or of the queue in which no call fails; the
   two venues answer with the same price and there is one transaction hash,
   which keeps the messages on the sockets few *)
StepWsSubmit(o) ==
    \/ StartJob(o)
    \/ StatusQueryOk(o)
    \/ \E pr \in PriceLevels : GetBestQuoteOk(o, pr, pr)
    \/ \E sl \in Slippages : ExecuteSwapOk(o, sl, "tx1")
    \/ SaveOrderResultOk(o)
    \/ SaveOrderErrorOk(o)
    \/ BackoffElapsed(o)

(* Orders are submitted over submission sockets, which may close at any
   time, and processed; the INSERT and the addOrder of a submission may be
   rejected and getBestQuote may reject, within the budget of failures. *)
NextWsSubmit ==
    \/ \E s \in Clients : WsSubmitConnect(s)
    \/ \E s \in Clients : WsSubmitClose(s)
    \/ \E s \in Clients, o \in Orders, m \in WsBodies : WsSubmitMessage(s, o, m)
    \/ \E o \in Orders : WsInsertOk(o)
    \/ \E o \in Orders : WsAddOrderOk(o)
    \/ \E o \in Orders : Reject /\ WsSubmitFail(o)
    \/ \E o \in Orders : StepWsSubmit(o)
    \/ \E o \in Orders : Reject /\ GetBestQuoteFail(o)

SpecWsSubmit == Init /\ [][NextWsSubmit]_vars


(* ---- C37 ---- *)
(* the status events of order o that socket s has received, in order *)
EventsFor(s, o) ==
    LET IsEvent(m) ==
            /\ "orderId" \in DOMAIN m
            /\ "message" \notin DOMAIN m
            /\ m.orderId = o
        ev == SelectSeq(inbox[s], IsEvent)
    IN  [i \in 1..Len(ev) |-> ev[i].status]

(* every status pushed for o so far, where attempts fail at routing only:
   pending, routing, failed for each attempt that has failed and been
   cleared from pushed, then the statuses pushed since *)
AllPushed(o) ==
    LET cleared == IF jobs[o].state = "failed"
                   THEN jobs[o].attemptsMade - 1
                   ELSE jobs[o].attemptsMade
        prf == <<PENDING, ROUTING, FAILED>>
    IN  [i \in 1..(3 * cleared) |-> prf[((i - 1) % 3) + 1]] \o pushed[o]

(* C37: the socket an order was submitted on is registered for it from the
   message handler's first step on, hence before its job is enqueued, and
   while that socket is open and registered it has received every status
   pushed for the order in every attempt, in the order pushed *)
C37_SubmitterReceivesAll ==
    \A o \in Orders :
        /\ wsPc[o].at # "none" => connections[o] = wsPc[o].socket
        /\ wsPc[o].at \in {"none", "insert", "add", "failed"} =>
               jobs[o].state = "none"
        /\ wsPc[o].at # "none" =>
               LET s == wsPc[o].socket IN
               readyState[s] = OPEN /\ connections[o] = s =>
                   EventsFor(s, o) = AllPushed(o)

(* the socket of an order whose first attempt failed at routing and whose
   retry confirmed has received the statuses of both attempts *)
C37_Witness ==
    \E o \in Orders :
        /\ wsPc[o].at = "done"
        /\ jobs[o].state = "completed"
        /\ readyState[wsPc[o].socket] = OPEN
        /\ EventsFor(wsPc[o].socket, o) = <<PENDING, ROUTING, FAILED>> \o Chain


(* the same, with the handlers, the queue and its workers scheduled fairly:
   every awaited call returns, and a waiting job is taken *)
FairWsSubmit ==
    /\ Init
    /\ [][NextWsSubmit]_vars
    /\ \A o \in Orders : WF_vars(WsInsertOk(o))
    /\ \A o \in Orders : WF_vars(WsAddOrderOk(o))
    /\ \A o \in Orders : WF_vars(StepWsSubmit(o))

(* ---- C38 ---- *)
(* C38 as claimed: whenever a socket that has closed is registered for an
   order, the hub's map eventually has no entry of that order for it *)
C38_NoStaleRegistration ==
    \A s \in Sockets, o \in Orders :
        [](readyState[s] = CLOSED /\ connections[o] = s
               => <>(connections[o] # s))

====
